---------------------------- MODULE Spec2Model ----------------------------
(***************************************************************************)
(* A model of the message routing and action-dispatch core of t-botti:     *)
(* irc_loop (the Registry and its per-network Connection Actors),          *)
(* message_handler with the command tasks it spawns, is_admin, and the     *)
(* top-level tasks main() joins.                                           *)
(*                                                                         *)
(* Strings that the code compares or concatenates (identity masks, action  *)
(* texts) are sequences of tokens, so that format!() is a concatenation.   *)
(* Network and channel names are plain strings.                            *)
(***************************************************************************)
EXTENDS Naturals, Sequences, FiniteSets, TLC

VARIABLES
    config,        \* the parsed config.yml handed to irc_loop (main.rs:109-115)
    regPc,         \* irc_loop: "start", "loop", "sendDown", "sendActor", "returned", "panicked"
    regPending,    \* the item irc_loop holds while suspended in a send
    admins,        \* irc_loop's admins: HashMap<String, Vec<String>>
    handles,       \* irc_loop's network_mpsc_senders: network name -> actor
    actorPc,       \* per actor: "absent", "connect", "run", "sendMerge", "dead"
    actorPending,  \* the message an actor holds while suspended in network_sender.send
    actorQ,        \* per actor: the mpsc::channel(10) of BotActions
    wire,          \* per network: what was sent on its connection, in order
    mergeQ,        \* common_ircdata: mpsc::channel(100) of (network, Message)
    dispQ,         \* ircdata: mpsc::channel(10) read by message_handler
    actionQ,       \* botaction: mpsc::channel(10) read by irc_loop
    queryQ,        \* clientquery: mpsc::channel(10) read by irc_loop
    mhPc,          \* message_handler: "recv", "sendMatt", "done"
    mhPending,     \* the action message_handler holds while suspended in send
    observed,      \* what message_handler's receiver has yielded, in order
    tasks,         \* the command tasks spawned by message_handler
    rssPc,         \* rss_manager: "sleep", "refresh", "panicked"
    timerPc,       \* timer_manager: "recv", "done"
    joined,        \* how many of main's tasks have been joined; 4 = process exit
    timerQ,        \* timer: mpsc::channel(10) of TimerEvents read by timer_manager
    timers,        \* the tasks spawned by start_timer
    clock,         \* the time, in seconds since midnight of the first day
    rssDb,         \* db/rss.db: the feeds and posts tables
    weatherDb,     \* weather_locations.db: the locations table
    timerDb,       \* db/timer.db: the timers table and its AUTOINCREMENT count
    hist           \* bookkeeping for the properties (never read by the program)

\* the databases, and the timer channel with its tasks and the clock
dbVars == << rssDb, weatherDb, timerDb >>
timerVars == << timerQ, timers, clock >>

vars == << config, regPc, regPending, admins, handles, actorPc, actorPending,
           actorQ, wire, mergeQ, dispQ, actionQ, queryQ, mhPc, mhPending,
           observed, tasks, rssPc, timerPc, joined, timerQ, timers, clock,
           rssDb, weatherDb, timerDb, hist >>

----------------------------------------------------------------------------
(* Bounds of the model *)

\* frames read from all connections together
MaxEvents == 2
\* timers restored from the database that fire
MaxTimers == 1
\* queries sent by holders of the query handle other than is_admin
MaxExtQueries == 2
\* error items yielded by all connection streams together
MaxBadFrames == 1
\* frames read in a burst that message_handler may leave unread: enough to
\* fill the dispatcher channel and the merge channel and to suspend irc_loop
\* and the actor
MaxFrameBurst == 112
\* timers that fire in a burst: enough to fill an actor's channel and the
\* action channel, to suspend irc_loop and to leave one timer task waiting
MaxActionBurst == 22

\* tokens of a time argument handed to command_timer
MaxTimeLen == 5
\* calls of the functions of a database module on one connection
MaxDbOps == 3
\* the number of calls made on the weather-location store
MaxWeatherOps == 4
\* calls of command_timer that send a TimerEvent to timer_manager
MaxTimerEvents == 2
\* times the bot's process is ended and started again
MaxRestarts == 2
\* cycles of refresh_feeds
MaxCycles == 2
\* frames with an inline reply read in a burst: enough to fill the action
\* channel and the dispatcher channel, with one value in each suspended send
MaxMattFrames == 22
\* frames of a command followed by a burst of frames with an inline reply
MaxQueryFrames == 13
\* timer actions that fill the action channel
MaxQueryActions == 10
\* frames read in a burst that fills the merge channel, with one more in the
\* suspended send of the actor
MaxJamFrames == 101
\* timer actions that fill the channel of an actor, with one more in the
\* suspended send of irc_loop
MaxJamActions == 11

(* Program constants *)

\* mpsc::channel(10): botaction, ircdata, clientquery, and each actor's channel
ChanCap == 10
\* mpsc::channel(100): common_ircdata
MergeCap == 100

----------------------------------------------------------------------------
(* Values *)

NoneStr == "<none>"
Nil == [nil |-> TRUE]

\* network names a descriptor can carry; "irc3" is never configured
ConfigNets == {"irc1", "irc2"}
AllNets == ConfigNets \cup {"irc3"}
Channels == {"#c", "#d"}

Range(s) == {s[i] : i \in DOMAIN s}

\* irc::client::prelude::Prefix as message_handler copies it
Nickname(nick, user, host) == [kind |-> "Nickname", nick |-> nick, user |-> user, host |-> host]
ServerName(name) == [kind |-> "ServerName", nick |-> name, user |-> << >>, host |-> << >>]
NoPrefix == [kind |-> "None", nick |-> << >>, user |-> << >>, host |-> << >>]

Alice == Nickname(<<"alice">>, <<"a">>, <<"host">>)
Alice2 == Nickname(<<"alice">>, <<"a">>, <<"host", "2">>)
Prefixes == {Alice, Alice2, ServerName(<<"srv">>), NoPrefix}

\* format!("{}!{}@{}", nick, user, host)
FormatMask(nick, user, host) == nick \o <<"!">> \o user \o <<"@">> \o host

AliceMask == FormatMask(<<"alice">>, <<"a">>, <<"host">>)
Alice2Mask == FormatMask(<<"alice">>, <<"a">>, <<"host", "2">>)
Masks == {AliceMask, Alice2Mask}


----------------------------------------------------------------------------
(* Configuration: config["networks"] and its descriptors *)

\* an entry of a descriptor's "admins" list: a YAML string, or a YAML value
\* of another type, for which as_str() is None
StrEntry(m) == [isStr |-> TRUE, v |-> m]
NonStrEntry == [isStr |-> FALSE, v |-> << >>]

Descriptor(name, server, adminEntries) ==
    [network |-> name, server |-> server, admins |-> adminEntries]

AdminLists ==
    { << >>,
      << StrEntry(AliceMask) >>,
      << NonStrEntry, StrEntry(Alice2Mask), StrEntry(AliceMask) >> }

Descriptors ==
    { Descriptor(n, s, a) : n \in ConfigNets \cup {NoneStr},
                            s \in {"srv", NoneStr},
                            a \in AdminLists }

\* network names are required to be unique (spec, section 6)
UniqueNames(nets) ==
    \A i, j \in DOMAIN nets :
        (i # j /\ nets[i].network # NoneStr) => nets[i].network # nets[j].network

\* a descriptor that has both required fields
Complete(d) == d.network # NoneStr /\ d.server # NoneStr

\* The configurations the model starts from: no "networks" key at all, or one
\* or two descriptors of which the second may lack a field or carry admins.
Configs ==
    { [hasNetworks |-> FALSE, networks |-> << >>] }
    \cup
    { [hasNetworks |-> TRUE, networks |-> nets] :
        nets \in { n \in [1..2 -> Descriptors] :
                     /\ UniqueNames(n)
                     /\ n[1].admins = << StrEntry(AliceMask) >>
                     /\ n[1].network \in {"irc1", NoneStr}
                     /\ n[2].admins # << StrEntry(AliceMask) >> } }

\* The for loop of irc_loop over the descriptors, from descriptor i on:
\* returns [ok, admins, configs]; ok = FALSE is one of the early returns.
RECURSIVE ParseFrom(_, _, _, _)
ParseFrom(nets, i, adm, confs) ==
    IF i > Len(nets) THEN [ok |-> TRUE, admins |-> adm, configs |-> confs]
    ELSE LET d == nets[i] IN
         IF d.network = NoneStr
         THEN [ok |-> FALSE, admins |-> adm, configs |-> confs]
         ELSE LET adm1 == [x \in DOMAIN adm \cup {d.network} |->
                              IF x = d.network THEN << >> ELSE adm[x]]
              IN IF d.server = NoneStr
                 THEN [ok |-> FALSE, admins |-> adm1, configs |-> confs]
                 ELSE LET strs == SelectSeq(d.admins, LAMBDA e : e.isStr)
                          adm2 == [adm1 EXCEPT ![d.network] =
                                      [k \in 1..Len(strs) |-> strs[k].v]]
                      IN ParseFrom(nets, i + 1, adm2, confs \cup {d.network})

EmptyMap == [x \in {} |-> << >>]

ParseNetworks(cfg) ==
    IF ~cfg.hasNetworks
    THEN [ok |-> FALSE, admins |-> EmptyMap, configs |-> {}]
    ELSE ParseFrom(cfg.networks, 1, EmptyMap, {})

\* a mutant of SpawnSet: an actor is spawned as soon as its descriptor is read
SpawnSetEager(cfg) == ParseNetworks(cfg).configs

\* the networks for which irc_loop spawns a Connection Actor
SpawnSet(cfg) ==
    LET p == ParseNetworks(cfg) IN IF p.ok THEN p.configs ELSE {}

\* a descriptor of the configuration lacks its name or its server
DescriptorError(cfg) ==
    \E i \in DOMAIN cfg.networks : ~Complete(cfg.networks[i])


----------------------------------------------------------------------------
(* Messages, actions, queries *)

\* crate::IrcChannel
IrcChannel(network, channel) == [network |-> network, channel |-> channel]

\* crate::botaction::BotAction with ActionType::Message / ActionType::Action
MessageAction(target, text) ==
    [target |-> target, action_type |-> [kind |-> "Message", text |-> text]]
EmoteAction(target, text) ==
    [target |-> target, action_type |-> [kind |-> "Action", text |-> text]]

\* message texts, as token sequences
TextH33h3 == << "h33h3" >>
TextRss == << ".", "rss", " ", "remove", " ", "1" >>
TextEcho == << ".", "echo", " ", "hi" >>
TextRssAdd == << ".", "rss", " ", "add", " ", "http://f" >>
TextRssList == << ".", "rss", " ", "list" >>
TextMatt == << "so", " ", "Matt Damon" >>
TextPlain == << "hello" >>

\* The frames a connection's stream can yield as Ok(message): the parts of
\* irc::proto::Message the program reads.
IrcMessage(prefix, command, target, text) ==
    [prefix |-> prefix, command |-> command, target |-> target, text |-> text]

InboundMessages ==
    { IrcMessage(p, "PRIVMSG", "#c", TextRss) : p \in {Alice, ServerName(<<"srv">>), NoPrefix} }
    \cup { IrcMessage(Alice2, "PRIVMSG", "#c", TextMatt) }

\* frames that make message_handler or a task it spawns reply: a command
\* with a reply of its own, the text of the h33h3 task, and a text with an
\* inline reply, on another channel
ReplyMessages ==
    { IrcMessage(Alice, "PRIVMSG", "#c", TextEcho),
      IrcMessage(Alice, "PRIVMSG", "#c", TextH33h3),
      IrcMessage(Alice2, "PRIVMSG", "#d", TextMatt) }

\* frames of other kinds and frames sent to the bot itself ("bot"), with
\* texts that would be answered in a text message sent to a channel
KindMessages ==
    { IrcMessage(Alice, "NOTICE", "#c", TextEcho),
      IrcMessage(Alice, "JOIN", "#c", TextH33h3),
      IrcMessage(NoPrefix, "PRIVMSG", "bot", TextRss),
      IrcMessage(ServerName(<<"srv">>), "PRIVMSG", "bot", TextMatt),
      IrcMessage(Alice, "PRIVMSG", "bot", TextEcho) }

\* a frame that nothing replies to
PlainMessage == IrcMessage(Alice, "PRIVMSG", "#c", TextPlain)

\* the timers of a burst: all set on one channel of irc1
BurstActions ==
    { MessageAction(IrcChannel("irc1", "#c"), << "Timer: ", "tea" >>) }

\* what a restored timer sends when it fires: the timers table holds the
\* network and channel the timer was set on, which need not be configured
\* any more
TimerActions ==
    { MessageAction(IrcChannel(n, "#c"), << "Timer: ", "tea" >>) : n \in AllNets }

\* ClientQuery::IsAdmin(response_channel, network, mask); slot names the task
\* that holds the receiving end (0: a holder other than is_admin), rxDropped
\* whether that end has been dropped
IsAdminQuery(slot, network, mask, rxDropped) ==
    [slot |-> slot, network |-> network, mask |-> mask, rxDropped |-> rxDropped]

\* a mutant of HasRoom: a channel without a capacity
HasRoomAlways(q, cap) == TRUE

\* a bounded mpsc channel accepts a value at once only below its capacity;
\* a sender that finds it full is suspended until a value is taken out
HasRoom(q, cap) == Len(q) < cap

----------------------------------------------------------------------------
(* Initial state: main() has read the configuration, made the four channels
   and spawned the four top-level tasks; none has run yet. *)

Init ==
    /\ config \in Configs
    /\ regPc = "start"
    /\ regPending = Nil
    /\ admins = EmptyMap
    /\ handles = [x \in {} |-> ""]
    /\ actorPc = [n \in ConfigNets |-> "absent"]
    /\ actorPending = [n \in ConfigNets |-> Nil]
    /\ actorQ = [n \in ConfigNets |-> << >>]
    /\ wire = [n \in ConfigNets |-> << >>]
    /\ mergeQ = << >>
    /\ dispQ = << >>
    /\ actionQ = << >>
    /\ queryQ = << >>
    /\ mhPc = "recv"
    /\ mhPending = Nil
    /\ observed = << >>
    /\ tasks = << >>
    /\ rssPc = "sleep"
    /\ timerPc = "recv"
    /\ joined = 0
    /\ timerQ = << >>
    /\ timers = << >>
    /\ clock = 0
    /\ rssDb = [feeds |-> << >>, posts |-> << >>]
    /\ weatherDb = << >>
    /\ timerDb = [rows |-> << >>, seq |-> 0]
    /\ hist = [ read |-> [n \in ConfigNets |-> 0],
                fired |-> 0,
                bad |-> 0,
                badOn |-> NoneStr,
                badSeq |-> 0,
                ext |-> 0,
                dropped |-> 0,
                routedAfterDrop |-> FALSE,
                dbOps |-> 0,
                last |-> Nil,
                sets |-> << >>,
                fires |-> << >>,
                restarts |-> 0,
                late |-> FALSE,
                added |-> {},
                announced |-> << >>,
                cycles |-> 0,
                answers |-> {} ]

\* main has not returned: the runtime and its tasks are alive
Running == joined < 4

\* irc_loop is no longer running: its receivers and senders are dropped
RegGone == regPc \in {"returned", "panicked"}

\* irc_loop ends (return or panic): the values still queued for it are dropped,
\* and with them the reply slots of the queries it never answered
CloseReplies(ts) ==
    [i \in DOMAIN ts |->
        IF ts[i].reply = "pending" THEN [ts[i] EXCEPT !.reply = "closed"] ELSE ts[i]]

RegEnds(how) ==
    /\ regPc' = how
    /\ regPending' = Nil
    /\ mergeQ' = << >>
    /\ actionQ' = << >>
    /\ queryQ' = << >>
    /\ tasks' = CloseReplies(tasks)

----------------------------------------------------------------------------
(* irc_loop: startup *)

\* a mutant of HandlesFor: a sender is stored under another network's name
HandlesSwapped(nets) ==
    [n \in nets |-> IF nets \ {n} = {} THEN n ELSE CHOOSE k \in nets \ {n} : TRUE]

\* network_mpsc_senders.insert(network, network_input_tx): the actor spawned
\* next to it reads the other end
HandlesFor(nets) == [n \in nets |-> n]

IrcLoopStart ==
    /\ Running
    /\ regPc = "start"
    /\ LET p == ParseNetworks(config) IN
        /\ actorPc' = [n \in ConfigNets |->
                          IF n \in SpawnSet(config) THEN "connect" ELSE "absent"]
        /\ IF p.ok
           THEN /\ regPc' = "loop"
                /\ admins' = p.admins
                /\ handles' = HandlesFor(SpawnSet(config))
                /\ UNCHANGED << regPending, mergeQ, actionQ, queryQ, tasks >>
           ELSE /\ RegEnds("returned")
                /\ UNCHANGED << admins, handles >>
    /\ UNCHANGED << dbVars, timerVars, config, actorPending, actorQ, wire, dispQ, mhPc, mhPending,
                    observed, rssPc, timerPc, joined, hist >>

----------------------------------------------------------------------------
(* Connection Actor of network n *)

\* Client::from_config(conf).await.unwrap(), identify().unwrap(),
\* stream().unwrap(): the actor enters its loop, or panics
ActorConnect(n) ==
    /\ Running
    /\ actorPc[n] = "connect"
    /\ \/ actorPc' = [actorPc EXCEPT ![n] = "run"]
       \/ actorPc' = [actorPc EXCEPT ![n] = "dead"]
    /\ actorQ' = [actorQ EXCEPT ![n] = IF actorPc'[n] = "dead" THEN << >> ELSE @]
    /\ UNCHANGED << dbVars, timerVars, config, regPc, regPending, admins, handles, actorPending,
                    wire, mergeQ, dispQ, actionQ, queryQ, mhPc, mhPending,
                    observed, tasks, rssPc, timerPc, joined, hist >>

\* a mutant of ActorTag: every actor tags with the same name
ActorTagFirst(n) == "irc1"

\* the network name an actor tags what it reads with
ActorTag(n) == n

\* Some(message) = stream.next() with message = Ok(m):
\* network_sender.send((network, m)).await.unwrap(). The event carries, next
\* to the pair the code sends, bookkeeping for the properties: its number
\* among the frames of its connection (seq), the actor that read it (by) and
\* the frame as read (orig). The send completes at once
\* when the merge channel has room and suspends the actor when it is full; a
\* suspended actor (pc "sendMerge") resumes here. An Err (irc_loop's receiver
\* is dropped) panics the actor.
ActorInboundUpTo(n, m, max) ==
    /\ Running
    /\ IF actorPc[n] = "run"
       THEN hist.read["irc1"] + hist.read["irc2"] < max
       ELSE actorPc[n] = "sendMerge"
    /\ LET fresh == actorPc[n] = "run"
           item == IF fresh
                   THEN [network |-> ActorTag(n), message |-> m,
                         seq |-> hist.read[n] + 1, by |-> n, orig |-> m]
                   ELSE actorPending[n]
       IN /\ hist' = IF fresh THEN [hist EXCEPT !.read[n] = @ + 1] ELSE hist
          /\ IF RegGone
             THEN /\ actorPc' = [actorPc EXCEPT ![n] = "dead"]
                  /\ actorPending' = [actorPending EXCEPT ![n] = Nil]
                  /\ actorQ' = [actorQ EXCEPT ![n] = << >>]
                  /\ UNCHANGED mergeQ
             ELSE IF HasRoom(mergeQ, MergeCap)
             THEN /\ mergeQ' = Append(mergeQ, item)
                  /\ actorPc' = [actorPc EXCEPT ![n] = "run"]
                  /\ actorPending' = [actorPending EXCEPT ![n] = Nil]
                  /\ UNCHANGED actorQ
             ELSE /\ actorPc' = [actorPc EXCEPT ![n] = "sendMerge"]
                  /\ actorPending' = [actorPending EXCEPT ![n] = item]
                  /\ UNCHANGED << mergeQ, actorQ >>
    /\ UNCHANGED << dbVars, timerVars, config, regPc, regPending, admins, handles, wire, dispQ,
                    actionQ, queryQ, mhPc, mhPending, observed, tasks, rssPc,
                    timerPc, joined >>

\* a mutant of AfterBadFrame: an error item ends the actor
AfterBadFrameDies(pc) == "dead"

\* if let Ok(m) = message has no else: after an error item the actor is
\* where it was, at the top of its loop
AfterBadFrame(pc) == pc

\* Some(message) = stream.next() with message = Err(_): the body of the
\* if let is skipped. The bookkeeping notes the connection and how many
\* frames it had yielded before.
ActorBadFrame(n) ==
    /\ Running
    /\ actorPc[n] = "run"
    /\ hist.bad < MaxBadFrames
    /\ actorPc' = [actorPc EXCEPT ![n] = AfterBadFrame(@)]
    /\ hist' = [hist EXCEPT !.bad = @ + 1, !.badOn = n, !.badSeq = hist.read[n]]
    /\ UNCHANGED << dbVars, timerVars, config, regPc, regPending, admins, handles, actorPending,
                    actorQ, wire, mergeQ, dispQ, actionQ, queryQ, mhPc,
                    mhPending, observed, tasks, rssPc, timerPc, joined >>

\* a mutant of WireCall: every action is sent as a text message
WireCallPrivmsg(action) ==
    [call |-> "PRIVMSG",
     to |-> action.target.channel,
     text |-> action.action_type.text,
     action |-> action]

\* a frame read within the bound on frames
ActorInbound(n, m) == ActorInboundUpTo(n, m, MaxEvents)

\* the protocol call an actor makes for an action
WireCall(action) ==
    [call |-> IF action.action_type.kind = "Message" THEN "PRIVMSG" ELSE "ACTION",
     to |-> action.target.channel,
     text |-> action.action_type.text,
     action |-> action]

\* a mutant of Consume: the action stays in the channel after it is received
ConsumeKeep(q) == q

\* network_input_rx.recv() takes the oldest action out of the actor's channel
Consume(q) == Tail(q)

\* network_input_rx.recv() yields an action: send_privmsg / send_action on the
\* actor's own client, .unwrap(): the call succeeds, or the actor panics
ActorApply(n) ==
    /\ Running
    /\ actorPc[n] = "run"
    /\ actorQ[n] # << >>
    /\ \/ /\ wire' = [wire EXCEPT ![n] = Append(@, WireCall(Head(actorQ[n])))]
          /\ actorQ' = [actorQ EXCEPT ![n] = Consume(@)]
          /\ UNCHANGED actorPc
       \/ /\ actorPc' = [actorPc EXCEPT ![n] = "dead"]
          /\ actorQ' = [actorQ EXCEPT ![n] = << >>]
          /\ UNCHANGED wire
    /\ UNCHANGED << dbVars, timerVars, config, regPc, regPending, admins, handles, actorPending,
                    mergeQ, dispQ, actionQ, queryQ, mhPc, mhPending, observed,
                    tasks, rssPc, timerPc, joined, hist >>


----------------------------------------------------------------------------
(* irc_loop: the steady-state loop *)

\* a mutant of DownstreamSend: the newest event overtakes the queued ones
DownstreamSendFront(q, item) == << item >> \o q

\* input_channel.send(item) on a channel with room: the item joins the queue
\* behind what is already in it
DownstreamSend(q, item) == Append(q, item)

\* Some((network, message)) = common_ircdata_rx.recv():
\* input_channel.send((network, message)).await.unwrap(). The send completes
\* at once when the dispatcher channel has room and suspends irc_loop when it
\* is full (pc "sendDown", resumed here); an Err (message_handler's receiver
\* is dropped) panics irc_loop.
RegInbound ==
    /\ Running
    /\ IF regPc = "loop" THEN mergeQ # << >> ELSE regPc = "sendDown"
    /\ LET fresh == regPc = "loop"
           item == IF fresh THEN Head(mergeQ) ELSE regPending
       IN IF mhPc = "done"
          THEN /\ RegEnds("panicked")
               /\ UNCHANGED dispQ
          ELSE /\ mergeQ' = IF fresh THEN Tail(mergeQ) ELSE mergeQ
               /\ IF HasRoom(dispQ, ChanCap)
                  THEN /\ dispQ' = DownstreamSend(dispQ, item)
                       /\ regPc' = "loop"
                       /\ regPending' = Nil
                  ELSE /\ regPc' = "sendDown"
                       /\ regPending' = item
                       /\ UNCHANGED dispQ
               /\ UNCHANGED << actionQ, queryQ, tasks >>
    /\ UNCHANGED << dbVars, timerVars, config, admins, handles, actorPc, actorPending, actorQ,
                    wire, mhPc, mhPending, observed, rssPc, timerPc, joined,
                    hist >>

\* a mutant of ActorSend: the newest action overtakes the queued ones
ActorSendFront(q, action) == << action >> \o q

\* sender.send(action) on an actor's channel with room: the action joins the
\* queue behind what is already in it
ActorSend(q, action) == Append(q, action)

\* a mutant of LookupSender: an unknown network falls back to some sender
LookupSenderDefault(h, network) ==
    IF network \in DOMAIN h
    THEN [found |-> TRUE, to |-> h[network]]
    ELSE IF DOMAIN h = {}
    THEN [found |-> FALSE, to |-> NoneStr]
    ELSE [found |-> TRUE, to |-> h[CHOOSE k \in DOMAIN h : TRUE]]

\* network_mpsc_senders.get(&action.target.network)
LookupSender(h, network) ==
    IF network \in DOMAIN h
    THEN [found |-> TRUE, to |-> h[network]]
    ELSE [found |-> FALSE, to |-> NoneStr]

\* a mutant of AfterGet: the lookup takes the sender out of the mapping
AfterGetRemove(h, network) == [k \in DOMAIN h \ {network} |-> h[k]]

\* HashMap::get borrows the mapping: it is the same after the lookup
AfterGet(h, network) == h

\* Some(action) = output_channel.recv(): look the sender up and
\* sender.send(action).await.unwrap(); nothing is done when there is no
\* sender. The send completes at once when the actor's channel has room and
\* suspends irc_loop when it is full (pc "sendActor", resumed here); an Err
\* (the actor's receiver is dropped) panics irc_loop.
RegOutbound ==
    /\ Running
    /\ IF regPc = "loop" THEN actionQ # << >> ELSE regPc = "sendActor"
    /\ LET fresh == regPc = "loop"
           action == IF fresh THEN Head(actionQ) ELSE regPending.action
           s == IF fresh
                THEN LookupSender(handles, action.target.network)
                ELSE [found |-> TRUE, to |-> regPending.to]
       IN IF ~s.found
          THEN /\ actionQ' = Tail(actionQ)
               /\ hist' = [hist EXCEPT !.dropped = @ + 1]
               /\ UNCHANGED << regPc, regPending, actorQ, mergeQ, queryQ, tasks >>
          ELSE IF actorPc[s.to] = "dead"
          THEN /\ RegEnds("panicked")
               /\ UNCHANGED << actorQ, hist >>
          ELSE /\ actionQ' = IF fresh THEN Tail(actionQ) ELSE actionQ
               /\ IF HasRoom(actorQ[s.to], ChanCap)
                  THEN /\ actorQ' = [actorQ EXCEPT ![s.to] = ActorSend(@, action)]
                       /\ regPc' = "loop"
                       /\ regPending' = Nil
                       /\ hist' = [hist EXCEPT !.routedAfterDrop = @ \/ hist.dropped > 0]
                  ELSE /\ regPc' = "sendActor"
                       /\ regPending' = [to |-> s.to, action |-> action]
                       /\ UNCHANGED << actorQ, hist >>
               /\ UNCHANGED << mergeQ, queryQ, tasks >>
    /\ handles' = IF regPc = "loop"
                  THEN AfterGet(handles, Head(actionQ).target.network)
                  ELSE handles
    /\ UNCHANGED << dbVars, timerVars, config, admins, actorPc, actorPending, wire, dispQ,
                    mhPc, mhPending, observed, rssPc, timerPc, joined >>

\* a mutant of IsOwner: one admin list for all networks
IsOwnerAnywhere(adm, network, mask) ==
    \E n \in DOMAIN adm : \E i \in DOMAIN adm[n] : adm[n][i] = mask

\* the scan of admins.get(&network) for a == &mask
IsOwner(adm, network, mask) ==
    /\ network \in DOMAIN adm
    /\ \E i \in DOMAIN adm[network] : adm[network][i] = mask

BoolStr(b) == IF b THEN "true" ELSE "false"

\* Some(query) = clientquery_receiver.recv(): compute is_owner and
\* response_channel.send(is_owner).unwrap(); the send is an Err when the
\* receiving end of the one-shot slot is dropped
RegAnswerQuery ==
    /\ Running
    /\ regPc = "loop"
    /\ queryQ # << >>
    /\ LET q == Head(queryQ)
           is_owner == IsOwner(admins, q.network, q.mask)
       IN IF q.rxDropped
          THEN /\ RegEnds("panicked")
               /\ UNCHANGED hist
          ELSE /\ queryQ' = Tail(queryQ)
               /\ tasks' = [i \in DOMAIN tasks |->
                              IF i = q.slot
                              THEN [tasks[i] EXCEPT !.reply = BoolStr(is_owner)]
                              ELSE tasks[i]]
               /\ hist' = [hist EXCEPT !.answers = @ \cup
                              {[network |-> q.network, mask |-> q.mask,
                                answer |-> is_owner]}]
               /\ UNCHANGED << regPc, regPending, mergeQ, actionQ >>
    /\ UNCHANGED << dbVars, timerVars, config, admins, handles, actorPc, actorPending, actorQ,
                    wire, dispQ, mhPc, mhPending, observed, rssPc, timerPc,
                    joined >>


----------------------------------------------------------------------------
(* message_handler and the command tasks it spawns *)

\* str::to_lowercase on the tokens the model uses
LowerToken(t) == IF t = "Matt Damon" THEN "matt damon" ELSE t
ToLower(text) == [i \in DOMAIN text |-> LowerToken(text[i])]

IsWhitespace(t) == t = " "

RECURSIVE TrimStart(_)
TrimStart(text) ==
    IF text # << >> /\ IsWhitespace(Head(text)) THEN TrimStart(Tail(text)) ELSE text

RECURSIVE TrimEnd(_)
TrimEnd(text) ==
    IF text # << >> /\ IsWhitespace(text[Len(text)])
    THEN TrimEnd(SubSeq(text, 1, Len(text) - 1))
    ELSE text

\* p.trim_matches(char::is_whitespace)
Trim(text) == TrimEnd(TrimStart(text))

\* handle_command: message[1..] split at its first whitespace
SplitCommand(text) ==
    LET rest == Tail(text)
        ws == {i \in DOMAIN rest : IsWhitespace(rest[i])}
    IN IF ws = {}
       THEN [command |-> rest, params |-> << >>]
       ELSE LET i == CHOOSE k \in ws : \A j \in ws : k <= j
            IN [command |-> SubSeq(rest, 1, i - 1),
                params |-> Trim(SubSeq(rest, i, Len(rest)))]

\* message_handler's copy of message.prefix: only a nick/user/host triple is kept
CopyPrefix(p) == IF p.kind = "Nickname" THEN p ELSE NoPrefix

\* a mutant of AdminMask: a mask is formatted for any prefix
AdminMaskLenient(prefix) ==
    [some |-> TRUE, mask |-> FormatMask(prefix.nick, prefix.user, prefix.host)]

\* is_admin, up to its first suspension: the mask of a nick/user/host
\* triple, or the immediate return of false
AdminMask(prefix) ==
    IF prefix.kind = "Nickname"
    THEN [some |-> TRUE, mask |-> FormatMask(prefix.nick, prefix.user, prefix.host)]
    ELSE [some |-> FALSE, mask |-> << >>]

\* a mutant of EchoAction: the reply never names the sender
EchoActionPlain(source, params, prefix) ==
    MessageAction(source, <<"Echo: ">> \o params)

\* command_echo's reply
EchoAction(source, params, prefix) ==
    MessageAction(source,
        IF prefix.kind = "Nickname"
        THEN FormatMask(prefix.nick, prefix.user, prefix.host) \o <<": ">> \o params
        ELSE <<"Echo: ">> \o params)

Task(command, source, params, prefix, pc, mask, out, ret) ==
    [command |-> command, source |-> source, params |-> params,
     prefix |-> prefix, pc |-> pc, mask |-> mask, reply |-> "none",
     out |-> out, ret |-> ret, extra |-> Nil, event |-> Nil, rest |-> << >>]

----------------------------------------------------------------------------
(* command_timer: texts are sequences of tokens; in a time argument every
   digit, separator and unit letter is a token of its own *)

Digits == << "0", "1", "2", "3", "4", "5", "6", "7", "8", "9" >>

IsDigit(t) == \E i \in DOMAIN Digits : Digits[i] = t

DigitVal(t) == (CHOOSE i \in DOMAIN Digits : Digits[i] = t) - 1

AllDigits(d) == \A i \in DOMAIN d : IsDigit(d[i])

\* the loop over params.chars(): time_part is what precedes the first
\* whitespace, message_part all that follows it
TimeSplit(params) ==
    LET ws == {i \in DOMAIN params : IsWhitespace(params[i])}
    IN IF ws = {}
       THEN [time_part |-> params, message_part |-> << >>]
       ELSE LET i == CHOOSE k \in ws : \A j \in ws : k <= j
            IN [time_part |-> SubSeq(params, 1, i - 1),
                message_part |-> SubSeq(params, i + 1, Len(params))]

RECURSIVE StripZeros(_)
StripZeros(d) == IF d # << >> /\ Head(d) = "0" THEN StripZeros(Tail(d)) ELSE d

RECURSIVE DigitsValue(_)
DigitsValue(d) ==
    IF d = << >> THEN 0
    ELSE 10 * DigitsValue(SubSeq(d, 1, Len(d) - 1)) + DigitVal(d[Len(d)])

\* i64::MAX = 9223372036854775807
I64MaxDigits ==
    << "9", "2", "2", "3", "3", "7", "2", "0", "3", "6", "8", "5", "4", "7",
       "7", "5", "8", "0", "7" >>

\* a and b are digit sequences of the same length: a is the greater number
RECURSIVE DigitsGreater(_, _)
DigitsGreater(a, b) ==
    IF a = << >> THEN FALSE
    ELSE IF Head(a) # Head(b) THEN DigitVal(Head(a)) > DigitVal(Head(b))
    ELSE DigitsGreater(Tail(a), Tail(b))

\* str::parse::<i64>() of a digit sequence is Ok when the number is at most
\* i64::MAX
FitsI64(d) ==
    LET z == StripZeros(d)
    IN \/ Len(z) < Len(I64MaxDigits)
       \/ Len(z) = Len(I64MaxDigits) /\ ~DigitsGreater(z, I64MaxDigits)

\* RE_HHMM: ^(?:(?P<hour>\d\d?)[:\.](?P<minute>\d\d))$
MatchHHMM(tp) ==
    /\ Len(tp) \in {4, 5}
    /\ AllDigits(SubSeq(tp, 1, Len(tp) - 3))
    /\ tp[Len(tp) - 2] \in {":", "."}
    /\ AllDigits(SubSeq(tp, Len(tp) - 1, Len(tp)))

\* the length of the run of digits of tp that starts at position p
RECURSIVE DigitRun(_, _)
DigitRun(tp, p) ==
    IF p <= Len(tp) /\ IsDigit(tp[p]) THEN 1 + DigitRun(tp, p + 1) ELSE 0

\* the position of a unit letter among the groups of RE_HMS, 0 for none
UnitStage(t) ==
    IF t = "h" THEN 1
    ELSE IF t \in {"m", "min"} THEN 2
    ELSE IF t = "s" THEN 3
    ELSE 0

\* RE_HMS: ^(?:(?P<hour>\d+)h)?(?:(?P<minute>\d+)(?:m|min))?(?:(?P<second>\d+)s)?$
\* matched from position p on with the groups from stage on still allowed;
\* caps[k] is the capture of group k, << >> when the group did not take part
RECURSIVE HMSFrom(_, _, _, _)
HMSFrom(tp, p, stage, caps) ==
    IF p > Len(tp) THEN [ok |-> TRUE, caps |-> caps]
    ELSE LET k == DigitRun(tp, p) IN
         IF k = 0 \/ p + k > Len(tp) THEN [ok |-> FALSE, caps |-> caps]
         ELSE LET u == UnitStage(tp[p + k]) IN
              IF u = 0 \/ u < stage THEN [ok |-> FALSE, caps |-> caps]
              ELSE HMSFrom(tp, p + k + 1, u + 1,
                           [caps EXCEPT ![u] = SubSeq(tp, p, p + k - 1)])

MatchHMS(tp) == HMSFrom(tp, 1, 1, << << >>, << >>, << >> >>)

\* RE_MINUTES: ^(?:(?P<minute>\d+))?$
MatchMinutes(tp) == AllDigits(tp)

SecondsPerDay == 86400

\* a mutant of HmsSeconds: the minutes are counted as seconds
HmsSecondsFlat(h, m, sec) == h * 3600 + m + sec

\* Duration::hours(h) + Duration::minutes(m) + Duration::seconds(sec)
HmsSeconds(h, m, sec) == h * 3600 + m * 60 + sec

\* a mutant of ValidTime: any two-digit hour and minute is a time of day
ValidTimeAny(hour, minute) == TRUE

\* NaiveDate::and_hms_opt(hour, minute, 0) is Some
ValidTime(hour, minute) == hour <= 23 /\ minute <= 59

\* a mutant of NextOccurrence: the time of day is taken on the day of now
NextOccurrenceToday(at, now) == at

\* diff = timer_datetime - now; if diff < 0 { timer_datetime += one_day }
NextOccurrence(at, now) == IF at - now < 0 THEN at + SecondsPerDay ELSE at

\* The time parsing of command_timer at the time now (seconds since the
\* first midnight): kind is "unparsable" (the HH:MM branch's reply), "ok",
\* "nomatch" (the silent return) or "panic" (an unwrap of a failed parse).
ParseTime(tp, now) ==
    IF MatchHHMM(tp)
    THEN LET hour == DigitsValue(SubSeq(tp, 1, Len(tp) - 3))
             minute == DigitsValue(SubSeq(tp, Len(tp) - 1, Len(tp)))
         IN IF ValidTime(hour, minute)
            THEN LET today == (now \div SecondsPerDay) * SecondsPerDay
                     at == today + hour * 3600 + minute * 60
                     timer_datetime == NextOccurrence(at, now)
                 IN [kind |-> "ok", duration |-> timer_datetime - now]
            ELSE [kind |-> "unparsable", duration |-> 0]
    ELSE IF MatchHMS(tp).ok
    THEN LET c == MatchHMS(tp).caps
         IN IF \A k \in 1..3 : FitsI64(c[k])
            THEN [kind |-> "ok",
                  duration |-> HmsSeconds(DigitsValue(c[1]), DigitsValue(c[2]),
                                          DigitsValue(c[3]))]
            ELSE [kind |-> "panic", duration |-> 0]
    ELSE IF MatchMinutes(tp)
    THEN IF FitsI64(tp)
         THEN [kind |-> "ok", duration |-> HmsSeconds(0, DigitsValue(tp), 0)]
         ELSE [kind |-> "panic", duration |-> 0]
    ELSE [kind |-> "nomatch", duration |-> 0]

\* format!("{}", n) of a number
RECURSIVE FormatNumber(_)
FormatNumber(n) ==
    IF n < 10 THEN << Digits[n + 1] >>
    ELSE FormatNumber(n \div 10) \o << Digits[(n % 10) + 1] >>

\* confirmation_msg (the letter a stands for a with diaeresis)
ConfirmationMsg(total_secs) ==
    LET sec == total_secs % 60
        m_temp == total_secs \div 60
        m == m_temp % 60
        h == m_temp \div 60
    IN << "Huudan sitten " >>
         \o (IF h > 0 THEN FormatNumber(h) \o << "h" >> ELSE << >>)
         \o (IF m > 0 THEN FormatNumber(m) \o << "m" >> ELSE << >>)
         \o (IF sec > 0 THEN FormatNumber(sec) \o << "s" >> ELSE << >>)
         \o << " paasta asiasta." >>

\* crate::timer::TimerEvent
TimerEvent(target, message, time) ==
    [target |-> target, message |-> message, time |-> time]

\* msg_to_send
TimerMessage(prefix, message_part) ==
    IF prefix.kind = "Nickname"
    THEN prefix.nick \o << ": " >> \o message_part
    ELSE << "Timer: " >> \o message_part

\* a mutant of TimerSends: the timer event is sent first
TimerSendsSwapped == << "sendTimer", "sendConfirm" >>

\* the two sends of command_timer after a parsed time, in their order
TimerSends == << "sendConfirm", "sendTimer" >>

\* where a task of command_timer goes after the send it does at pc
AfterSend(pc) ==
    IF pc = TimerSends[1] THEN TimerSends[2] ELSE "done"

\* command_timer up to its first suspension point
CommandTimer(source, params, prefix) ==
    LET ts == TimeSplit(params)
        r == ParseTime(ts.time_part, clock)
        t == Task("timer", source, params, prefix, "done", << >>, Nil, "none")
    IN IF r.kind = "unparsable"
       THEN [t EXCEPT !.pc = "sendAction",
                      !.out = MessageAction(source,
                                 << "Unable to parse time from " >> \o ts.time_part)]
       ELSE IF r.kind = "ok" /\ r.duration < 0
       THEN [t EXCEPT !.pc = "sendAction",
                      !.out = MessageAction(source,
                                 << "Time parser failed: negative duration." >>)]
       ELSE IF r.kind = "ok"
       THEN [t EXCEPT !.pc = TimerSends[1],
                      !.out = MessageAction(
                                 IrcChannel(source.network, source.channel),
                                 ConfirmationMsg(r.duration)),
                      !.event = TimerEvent(source,
                                   TimerMessage(prefix, ts.message_part),
                                   r.duration)]
       ELSE IF r.kind = "panic"
       THEN [t EXCEPT !.pc = "panicked"]
       ELSE t

----------------------------------------------------------------------------
(* rss: the feeds and posts tables of db/rss.db. A table is the sequence of
   its rows in the order of their rowids. *)

\* feeds (id integer primary key, url, name, network, channel)
FeedRow(id, url, name, network, channel) ==
    [id |-> id, url |-> url, name |-> name, network |-> network, channel |-> channel]

\* posts (id text PRIMARY KEY, url text not null unique, title, feed)
PostRow(id, url, title, feed) ==
    [id |-> id, url |-> url, title |-> title, feed |-> feed]

\* feed_rs::model::Entry, the fields the program reads: title is NoneStr for
\* an entry without a title, links the hrefs of its links
Entry(id, title, links) == [id |-> id, title |-> title, links |-> links]

\* FeedData
FeedData(title, url, entries) == [title |-> title, url |-> url, entries |-> entries]

\* the rowid SQLite gives a row inserted without one: one more than the
\* largest in the table
NextRowId(rows) ==
    IF rows = << >> THEN 1
    ELSE 1 + (CHOOSE m \in {rows[i].id : i \in DOMAIN rows} :
                 \A i \in DOMAIN rows : rows[i].id <= m)

\* network = :network AND channel = :channel
InTarget(row, target) ==
    row.network = target.network /\ row.channel = target.channel

\* SELECT id FROM feeds WHERE url = :url AND network = :network AND
\* channel = :channel, read with query_row: the id of the first row of the
\* result, which SQL leaves free to be any of the matching rows
FeedIdOf(feeds, url, target) ==
    { feeds[i].id : i \in { k \in DOMAIN feeds :
                               feeds[k].url = url /\ InTarget(feeds[k], target) } }

\* the loop of add_feed_to_db over the entries: an entry without links is
\* skipped, and an INSERT that breaks the primary key of posts or the
\* uniqueness of url ends the loop with an error, the rows inserted so far
\* staying in the table
RECURSIVE InsertPosts(_, _, _)
InsertPosts(posts, entries, feed_id) ==
    IF entries = << >> THEN [ok |-> TRUE, posts |-> posts]
    ELSE LET e == Head(entries) IN
         IF e.links = << >> THEN InsertPosts(posts, Tail(entries), feed_id)
         ELSE IF \E i \in DOMAIN posts :
                    posts[i].id = e.id \/ posts[i].url = e.links[1]
         THEN [ok |-> FALSE, posts |-> posts]
         ELSE InsertPosts(
                  Append(posts,
                         PostRow(e.id, e.links[1],
                                 IF e.title = NoneStr THEN "" ELSE e.title, feed_id)),
                  Tail(entries), feed_id)

\* add_feed_to_db once the id of the feed has been read as feed_id
AddFeedToDb(db, feed_data, target, feed_id) ==
    LET r == InsertPosts(db.posts, feed_data.entries, feed_id)
    IN [ok |-> r.ok, db |-> [feeds |-> db.feeds, posts |-> r.posts]]

\* INSERT INTO feeds (url, name, network, channel)
InsertFeed(db, feed_data, target) ==
    [db EXCEPT !.feeds = Append(@, FeedRow(NextRowId(db.feeds), feed_data.url,
                                           feed_data.title, target.network,
                                           target.channel))]

\* get_feeds_for_channel: the FeedInfos of the rows of the channel
GetFeedsForChannel(db, target) ==
    LET rows == SelectSeq(db.feeds, LAMBDA row : InTarget(row, target))
    IN [i \in DOMAIN rows |->
           [id |-> rows[i].id, url |-> rows[i].url, title |-> rows[i].name,
            target |-> IrcChannel(target.network, target.channel)]]

\* a mutant of FeedMatches: a feed is looked up by its id alone
FeedMatchesId(row, source, id) == row.id = id

\* id = ?1 AND network = ?2 AND channel = ?3
FeedMatches(row, source, id) == row.id = id /\ InTarget(row, source)

\* how the statements of remove_feed can end: all succeed, or the check,
\* the DELETE on feeds or the DELETE on posts returns an error
DbOutcomes == { "ok", "checkErr", "feedErr", "postErr" }

\* remove_feed: [ok, err, db]
RemoveFeed(db, source, id, outcome) ==
    IF outcome = "checkErr"
    THEN [ok |-> FALSE, err |-> << "Database error" >>, db |-> db]
    ELSE IF ~\E i \in DOMAIN db.feeds : FeedMatches(db.feeds[i], source, id)
    THEN [ok |-> FALSE,
          err |-> << "Feed " >> \o FormatNumber(id)
                     \o << " does not exists in this channel" >>,
          db |-> db]
    ELSE LET feeds1 == IF outcome = "feedErr" THEN db.feeds
                       ELSE SelectSeq(db.feeds,
                                LAMBDA row : ~FeedMatches(row, source, id))
             posts1 == IF outcome = "postErr" THEN db.posts
                       ELSE SelectSeq(db.posts, LAMBDA row : row.feed # id)
         IN [ok |-> outcome = "ok",
             err |-> IF outcome = "ok" THEN << >> ELSE << "Database error" >>,
             db |-> [feeds |-> feeds1, posts |-> posts1]]

\* the channels feeds are added to and removed from
FeedTargets ==
    { IrcChannel("irc1", "#c"), IrcChannel("irc1", "#d"), IrcChannel("irc2", "#c") }

\* feeds as fetched and parsed: a feed at two moments, with its entries
\* replaced by newer ones in between, and a feed whose entry has no link
FeedDatas ==
    { FeedData("T", "http://f", << Entry("e1", "Entry 1", << "http://f/1" >>) >>),
      FeedData("T", "http://f", << Entry("e2", NoneStr, << "http://f/2", "http://f/2b" >>) >>),
      FeedData("G", "http://g", << Entry("e3", "Entry 3", << >>) >>) }

\* Url::parse(url) is Ok with a scheme that starts with "http", for the
\* tokens the model uses as urls
IsHttpUrl(t) == t \in { "http://f", "http://g" }

\* rsscommand_from_params: Add(url), Remove(id), List or None
RssCommandFromParams(p) ==
    LET none == [kind |-> "None", url |-> NoneStr, id |-> 0]
        arg == SubSeq(p, 3, Len(p))
        words == SelectSeq(arg, LAMBDA t : ~IsWhitespace(t))
    IN IF Len(p) >= 2 /\ p[1] = "add" /\ p[2] = " "
       THEN IF Len(words) = 1 /\ IsHttpUrl(words[1])
            THEN [kind |-> "Add", url |-> words[1], id |-> 0]
            ELSE none
       ELSE IF Len(p) >= 2 /\ p[1] = "remove" /\ p[2] = " "
       THEN IF arg # << >> /\ AllDigits(arg) /\ FitsI64(arg)
            THEN [kind |-> "Remove", url |-> NoneStr, id |-> DigitsValue(arg)]
            ELSE none
       ELSE IF p = << "list" >>
       THEN [kind |-> "List", url |-> NoneStr, id |-> 0]
       ELSE none

\* list_feeds: one action "<id>: <title> | <url>" for each feed
ListActions(source, feeds) ==
    [k \in DOMAIN feeds |->
        MessageAction(IrcChannel(source.network, source.channel),
                      FormatNumber(feeds[k].id)
                         \o << ": ", feeds[k].title, " | ", feeds[k].url >>)]

\* how the database calls of command_rss can end: the statements of
\* remove_feed as in DbOutcomes, or open_db itself returns an error
RssOutcomes == DbOutcomes \cup { "openErr" }

\* command_rss for Remove(id) and List, for one way its database calls end:
\* [panic, db, outs], outs the actions it goes on to send
CommandRss(db, source, cmd, outcome) ==
    IF cmd.kind = "Remove"
    THEN IF outcome = "openErr"
         THEN [panic |-> TRUE, db |-> db, outs |-> << >>]
         ELSE LET r == RemoveFeed(db, source, cmd.id, outcome) IN
              [panic |-> FALSE, db |-> r.db,
               outs |-> << MessageAction(source,
                              IF r.ok
                              THEN << "Removed feed id " >> \o FormatNumber(cmd.id)
                              ELSE r.err) >>]
    ELSE IF cmd.kind = "List"
    THEN IF outcome # "ok"
         THEN [panic |-> TRUE, db |-> db, outs |-> << >>]
         ELSE [panic |-> FALSE, db |-> db,
               outs |-> ListActions(source, GetFeedsForChannel(db, source))]
    ELSE [panic |-> FALSE, db |-> db, outs |-> << >>]

\* add_feed once get_url and parse_feed have given feed_data: the results
\* of add_feed_to_db and the reply for each, as [panic, db, outs]
AddFeedResults(db, source, feed_data) ==
    LET target == IrcChannel(source.network, source.channel)
        failed == << "Error adding feed ", feed_data.title, ": Database error" >>
        db1 == InsertFeed(db, feed_data, source)
    IN { [panic |-> TRUE, db |-> db, outs |-> << >>],
         [panic |-> FALSE, db |-> db, outs |-> << MessageAction(target, failed) >>] }
       \cup
       { LET r == AddFeedToDb(db1, feed_data, source, feed_id) IN
         [panic |-> FALSE, db |-> r.db,
          outs |-> << MessageAction(target,
                         IF r.ok
                         THEN << "Successfully added feed ", feed_data.title >>
                         ELSE failed) >>] :
         feed_id \in FeedIdOf(db1.feeds, feed_data.url, source) }

----------------------------------------------------------------------------
(* handle_command *)

\* handle_command up to its first suspension point
HandleCommand(source, text, prefix) ==
    LET sc == SplitCommand(text) IN
    IF sc.command = <<"echo">>
    THEN Task("echo", source, sc.params, prefix, "sendAction", << >>,
              EchoAction(source, sc.params, prefix), "none")
    ELSE IF sc.command = <<"rss">>
    THEN LET m == AdminMask(prefix) IN
         IF m.some
         THEN Task("rss", source, sc.params, prefix, "sendQuery", m.mask, Nil, "none")
         ELSE Task("rss", source, sc.params, prefix, "done", << >>, Nil, "false")
    ELSE IF sc.command = <<"timer">>
    THEN CommandTimer(source, sc.params, prefix)
    ELSE Task("other", source, sc.params, prefix, "done", << >>, Nil, "none")

\* nbotti_h33h3: what the random draw can give, as [main, extra]; extra is
\* Nil when there is no extra action
H33h3Results(nick) ==
    { [main |-> [kind |-> "Action", text |-> << "am cry" >>],
       extra |-> [kind |-> "Message", text |-> << "<W> har har har" >>]],
      [main |-> [kind |-> "Message",
                 text |-> << "GOOD DAY " >> \o nick
                            \o << ", YOU LOSE AT THE INTTER NETS" >>],
       extra |-> Nil] }

\* handle_h33h3 up to its first suspension point, for the draw r: the extra
\* action, when there is one, is sent before the main action
H33h3Task(source, nick, r) ==
    [ Task("h33h3", source, nick, NoPrefix,
           IF r.extra = Nil THEN "sendMain" ELSE "sendExtra", << >>,
           [target |-> source, action_type |-> r.main], "none")
      EXCEPT !.extra = IF r.extra = Nil THEN Nil
                       ELSE [target |-> IrcChannel(source.network, source.channel),
                             action_type |-> r.extra] ]

\* a mutant of ResponseTarget: replies go to one fixed channel
ResponseTargetFixed(m) == "#c"

\* str::is_channel_name of the targets the model uses
IsChannelName(t) == t \in Channels

\* Message::source_nickname(): the nick of a nick/user/host prefix (one
\* token in the model), or none
SourceNickname(m) ==
    IF m.prefix.kind = "Nickname" THEN Head(m.prefix.nick) ELSE NoneStr

\* Message::response_target(): the channel a message was sent to, or the
\* sender's nick for a message sent to the bot itself; NoneStr is None
ResponseTarget(m) ==
    IF IsChannelName(m.target) THEN m.target ELSE SourceNickname(m)

\* a mutant of Handled: every message is taken as a text message with a
\* response target
HandledAny(msg) == TRUE

\* if let Command::PRIVMSG(_, msg) = &message.command, and response_target()
\* is Some: otherwise the turn of the loop ends here
Handled(msg) == msg.command = "PRIVMSG" /\ ResponseTarget(msg) # NoneStr

Contains(text, t) == \E i \in DOMAIN text : text[i] = t

\* the inline reply of message_handler to a message, Nil when there is none
InlineReply(source, msg) ==
    IF Handled(msg) /\ Contains(ToLower(msg.text), "matt damon")
    THEN MessageAction(source, <<"MATT DAMON">>)
    ELSE Nil

\* the command task message_handler spawns for a message, if any
Spawned(source, msg) ==
    IF Handled(msg) /\ msg.text # << >> /\ ToLower(msg.text)[1] = "."
    THEN << HandleCommand(source, msg.text, CopyPrefix(msg.prefix)) >>
    ELSE << >>

\* the tasks message_handler spawns for a message: the command task, and for
\* the text "h33h3" from a nick/user/host sender the h33h3 task with any of
\* its draws
SpawnChoices(source, msg) ==
    IF /\ Handled(msg)
       /\ ToLower(msg.text) = << "h33h3" >>
       /\ msg.prefix.kind = "Nickname"
    THEN { Spawned(source, msg) \o << H33h3Task(source, msg.prefix.nick, r) >> :
              r \in H33h3Results(msg.prefix.nick) }
    ELSE { Spawned(source, msg) }

\* a mutant of MhReady: message_handler awaits the tasks it has started
MhReadyJoined(ts) == \A i \in DOMAIN ts : ts[i].pc \in {"done", "panicked"}

\* tokio::spawn returns at once and its JoinHandle is dropped: the tasks
\* started so far do not hold message_handler back
MhReady(ts) == TRUE

\* Some((network, message)) = receiver.recv(): one turn of the while loop.
\* The inline reply's let _ = s.send(action).await completes at once when the
\* action channel has room (or is closed) and suspends message_handler when it
\* is full (pc "sendMatt", resumed here).
MhTurn ==
    /\ Running
    /\ IF mhPc = "recv" THEN dispQ # << >> ELSE mhPc = "sendMatt"
    /\ MhReady(tasks)
    /\ LET fresh == mhPc = "recv"
           ev == Head(dispQ)
           source == IrcChannel(ev.network, ResponseTarget(ev.message))
           reply == IF fresh THEN InlineReply(source, ev.message) ELSE mhPending
       IN /\ observed' = IF fresh THEN Append(observed, ev) ELSE observed
          /\ \E sp \in (IF fresh THEN SpawnChoices(source, ev.message) ELSE {<< >>}) :
                tasks' = tasks \o sp
          /\ dispQ' = IF fresh THEN Tail(dispQ) ELSE dispQ
          /\ IF reply = Nil \/ RegGone
             THEN /\ mhPc' = "recv"
                  /\ mhPending' = Nil
                  /\ UNCHANGED actionQ
             ELSE IF HasRoom(actionQ, ChanCap)
             THEN /\ actionQ' = Append(actionQ, reply)
                  /\ mhPc' = "recv"
                  /\ mhPending' = Nil
             ELSE /\ mhPc' = "sendMatt"
                  /\ mhPending' = reply
                  /\ UNCHANGED actionQ
    /\ UNCHANGED << dbVars, timerVars, config, regPc, regPending, admins, handles, actorPc,
                    actorPending, actorQ, wire, mergeQ, queryQ, rssPc,
                    timerPc, joined, hist >>

\* receiver.recv() yields None: every sender is dropped and nothing is queued
MhEnd ==
    /\ Running
    /\ mhPc = "recv"
    /\ dispQ = << >>
    /\ RegGone
    /\ mhPc' = "done"
    /\ UNCHANGED << dbVars, timerVars, config, regPc, regPending, admins, handles, actorPc,
                    actorPending, actorQ, wire, mergeQ, dispQ, actionQ, queryQ,
                    mhPending, observed, tasks, rssPc, timerPc, joined, hist >>

\* is_admin: clientquery_sender.send(ClientQuery::IsAdmin(..)).await.unwrap()
TaskSendQuery(i) ==
    /\ Running
    /\ tasks[i].pc = "sendQuery"
    /\ IF RegGone
       THEN /\ tasks' = [tasks EXCEPT ![i].pc = "panicked"]
            /\ UNCHANGED queryQ
       ELSE /\ HasRoom(queryQ, ChanCap)
            /\ queryQ' = Append(queryQ,
                  IsAdminQuery(i, tasks[i].source.network, tasks[i].mask, FALSE))
            /\ tasks' = [tasks EXCEPT ![i].pc = "awaitReply", ![i].reply = "pending"]
    /\ UNCHANGED << dbVars, timerVars, config, regPc, regPending, admins, handles, actorPc,
                    actorPending, actorQ, wire, mergeQ, dispQ, actionQ, mhPc,
                    mhPending, observed, rssPc, timerPc, joined, hist >>

\* a mutant of ReplyValue: any resolution of the reply slot counts as true
ReplyValueAny(reply) == TRUE

\* matches!(admin_rx.await, Ok(true))
ReplyValue(reply) == reply = "true"

\* a command task that goes on to send the actions outs, one by one
SendingAll(t, outs) ==
    IF outs = << >> THEN [t EXCEPT !.pc = "done"]
    ELSE [t EXCEPT !.pc = "sendAction", !.out = Head(outs), !.rest = Tail(outs)]

\* is_admin: admin_rx.await resolves; handle_command runs command_rss only
\* when the result is true. command_rss then runs up to its first
\* suspension: the get_url of an Add, or the first send of a Remove or a
\* List after their database calls, which end in one of the ways outcomes
TaskAwaitReplyWith(i, outcomes) ==
    /\ Running
    /\ tasks[i].pc = "awaitReply"
    /\ tasks[i].reply # "pending"
    /\ LET ret == ReplyValue(tasks[i].reply)
           t == [tasks[i] EXCEPT !.ret = BoolStr(ret)]
           cmd == RssCommandFromParams(t.params)
       IN IF ~ret
          THEN /\ tasks' = [tasks EXCEPT ![i] = [t EXCEPT !.pc = "done"]]
               /\ UNCHANGED rssDb
          ELSE IF cmd.kind = "Add"
          THEN /\ tasks' = [tasks EXCEPT ![i] = [t EXCEPT !.pc = "fetch"]]
               /\ UNCHANGED rssDb
          ELSE \E o \in outcomes :
                  LET r == CommandRss(rssDb, t.source, cmd, o) IN
                  /\ rssDb' = r.db
                  /\ tasks' = [tasks EXCEPT ![i] =
                                  IF r.panic THEN [t EXCEPT !.pc = "panicked"]
                                  ELSE SendingAll(t, r.outs)]
    /\ UNCHANGED << weatherDb, timerDb, timerVars, config, regPc, regPending, admins, handles, actorPc,
                    actorPending, actorQ, wire, mergeQ, dispQ, actionQ, queryQ,
                    mhPc, mhPending, observed, rssPc, timerPc, joined, hist >>

\* the reply resolves and the database calls of command_rss succeed
TaskAwaitReply(i) == TaskAwaitReplyWith(i, { "ok" })

\* add_feed: get_url(url).await resolves: an error, a body that does not
\* parse, or a feed, which add_feed_to_db stores; then the reply is sent
TaskFetched(i) ==
    /\ Running
    /\ tasks[i].pc = "fetch"
    /\ LET t == tasks[i]
           target == IrcChannel(t.source.network, t.source.channel)
           url == RssCommandFromParams(t.params).url
       IN \/ /\ tasks' = [tasks EXCEPT ![i] = SendingAll(t,
                    << MessageAction(target,
                          << "Error adding feed: Unable to get URL ", url >>) >>)]
             /\ UNCHANGED rssDb
          \/ /\ tasks' = [tasks EXCEPT ![i] = SendingAll(t,
                    << MessageAction(target,
                          << "Error adding feed: Unable to parse feed." >>) >>)]
             /\ UNCHANGED rssDb
          \/ \E fd \in FeedDatas :
                /\ fd.url = url
                /\ \E r \in AddFeedResults(rssDb, t.source, fd) :
                      /\ rssDb' = r.db
                      /\ tasks' = [tasks EXCEPT ![i] =
                                      IF r.panic THEN [t EXCEPT !.pc = "panicked"]
                                      ELSE SendingAll(t, r.outs)]
    /\ UNCHANGED << weatherDb, timerDb, timerVars, config, regPc, regPending, admins, handles, actorPc,
                    actorPending, actorQ, wire, mergeQ, dispQ, actionQ, queryQ,
                    mhPc, mhPending, observed, rssPc, timerPc, joined, hist >>

\* bot_sender.send(BotAction {..}).await.unwrap() of a command
TaskSendAction(i) ==
    /\ Running
    /\ tasks[i].pc = "sendAction"
    /\ IF RegGone
       THEN /\ tasks' = [tasks EXCEPT ![i].pc = "panicked"]
            /\ UNCHANGED actionQ
       ELSE /\ HasRoom(actionQ, ChanCap)
            /\ actionQ' = Append(actionQ, tasks[i].out)
            /\ tasks' = [tasks EXCEPT ![i] = SendingAll(tasks[i], tasks[i].rest)]
    /\ UNCHANGED << dbVars, timerVars, config, regPc, regPending, admins, handles, actorPc,
                    actorPending, actorQ, wire, mergeQ, dispQ, queryQ, mhPc,
                    mhPending, observed, rssPc, timerPc, joined, hist >>


\* handle_h33h3: let _ = bot_sender.send(action).await of the extra action;
\* an Err (irc_loop's receiver is dropped) is discarded
TaskSendExtra(i) ==
    /\ Running
    /\ tasks[i].pc = "sendExtra"
    /\ IF RegGone
       THEN UNCHANGED actionQ
       ELSE /\ HasRoom(actionQ, ChanCap)
            /\ actionQ' = Append(actionQ, tasks[i].extra)
    /\ tasks' = [tasks EXCEPT ![i].pc = "sendMain"]
    /\ UNCHANGED << dbVars, timerVars, config, regPc, regPending, admins, handles, actorPc,
                    actorPending, actorQ, wire, mergeQ, dispQ, queryQ, mhPc,
                    mhPending, observed, rssPc, timerPc, joined, hist >>

\* handle_h33h3: let _ = bot_sender.send(action).await of the main action
TaskSendMain(i) ==
    /\ Running
    /\ tasks[i].pc = "sendMain"
    /\ IF RegGone
       THEN UNCHANGED actionQ
       ELSE /\ HasRoom(actionQ, ChanCap)
            /\ actionQ' = Append(actionQ, tasks[i].out)
    /\ tasks' = [tasks EXCEPT ![i].pc = "done"]
    /\ UNCHANGED << dbVars, timerVars, config, regPc, regPending, admins, handles, actorPc,
                    actorPending, actorQ, wire, mergeQ, dispQ, queryQ, mhPc,
                    mhPending, observed, rssPc, timerPc, joined, hist >>


\* command_timer: bot_sender.send(BotAction {..}).await.unwrap() of the
\* confirmation
TaskSendConfirm(i) ==
    /\ Running
    /\ tasks[i].pc = "sendConfirm"
    /\ IF RegGone
       THEN /\ tasks' = [tasks EXCEPT ![i].pc = "panicked"]
            /\ UNCHANGED actionQ
       ELSE /\ HasRoom(actionQ, ChanCap)
            /\ actionQ' = Append(actionQ, tasks[i].out)
            /\ tasks' = [tasks EXCEPT ![i].pc = AfterSend("sendConfirm")]
    /\ UNCHANGED << dbVars, timerVars, config, regPc, regPending, admins,
                    handles, actorPc, actorPending, actorQ, wire, mergeQ, dispQ,
                    queryQ, mhPc, mhPending, observed, rssPc, timerPc, joined,
                    hist >>

\* command_timer: timer_sender.send(TimerEvent {..}).await.unwrap(); an Err
\* (timer_manager's receiver is dropped) panics the task
TaskSendTimer(i) ==
    /\ Running
    /\ tasks[i].pc = "sendTimer"
    /\ IF timerPc = "done"
       THEN /\ tasks' = [tasks EXCEPT ![i].pc = "panicked"]
            /\ UNCHANGED timerQ
       ELSE /\ HasRoom(timerQ, ChanCap)
            /\ timerQ' = Append(timerQ, tasks[i].event)
            /\ tasks' = [tasks EXCEPT ![i].pc = AfterSend("sendTimer")]
    /\ UNCHANGED << dbVars, timers, clock, config, regPc, regPending, admins,
                    handles, actorPc, actorPending, actorQ, wire, mergeQ, dispQ,
                    actionQ, queryQ, mhPc, mhPending, observed, rssPc, timerPc,
                    joined, hist >>

\* command_timer called on its own, as its tests call it, with the sending
\* ends of an action channel and a timer channel
CallCommandTimerUpTo(source, params, prefix, max) ==
    /\ Running
    /\ Len(tasks) < max
    /\ tasks' = Append(tasks, CommandTimer(source, params, prefix))
    /\ UNCHANGED << dbVars, timerVars, config, regPc, regPending, admins,
                    handles, actorPc, actorPending, actorQ, wire, mergeQ, dispQ,
                    actionQ, queryQ, mhPc, mhPending, observed, rssPc, timerPc,
                    joined, hist >>

\* command_timer called once
CallCommandTimer(source, params, prefix) ==
    CallCommandTimerUpTo(source, params, prefix, 1)

\* times of day at which the model looks at the clock: 2:22:00 and 11:06:40
ClockMarks == { 8520, 40000 }

\* the instants at which the sleep of a timer task ends
Deadlines == { timers[i].started + timers[i].time : i \in DOMAIN timers }

\* time passes, up to one of the instants the model looks at
Tick ==
    /\ Running
    /\ \E t \in ClockMarks \cup Deadlines : t > clock /\ clock' = t
    /\ UNCHANGED << dbVars, timerQ, timers, config, regPc, regPending, admins,
                    handles, actorPc, actorPending, actorQ, wire, mergeQ, dispQ,
                    actionQ, queryQ, mhPc, mhPending, observed, tasks, rssPc,
                    timerPc, joined, hist >>

\* start_timer: the task it spawns for an event, about to sleep; sent and
\* sentAt record the sends of its action on the action channel
TimerTask(event, db_id, now) ==
    [event |-> event,
     action |-> MessageAction(event.target, event.message),
     time |-> event.time, started |-> now, db_id |-> db_id,
     pc |-> "sleep", sent |-> 0, sentAt |-> 0]

\* timers (id INTEGER PRIMARY KEY AUTOINCREMENT, time, message, channel,
\* network): time is the deadline as a timestamp in whole seconds
TimerRow(id, time, message, target) ==
    [id |-> id, time |-> time, message |-> message, target |-> target]

\* add_timer_to_db: the row of the event, with the deadline now + time and
\* an id that was never used before
AddTimerToDb(db, event, now) ==
    [rows |-> Append(db.rows, TimerRow(db.seq + 1, now + event.time,
                                       event.message, event.target)),
     seq |-> db.seq + 1]

\* remove_from_db: DELETE FROM timers WHERE id = :id
RemoveFromDb(db, id) ==
    [db EXCEPT !.rows = SelectSeq(@, LAMBDA row : row.id # id)]

\* timer_manager: Some(event) = receiver.recv(): add_timer_to_db gives the
\* id of the row, or there is none (no connection, or the INSERT failed:
\* id 0), and start_timer spawns the task of the event
TimerManagerRecv ==
    /\ Running
    /\ timerPc = "recv"
    /\ timerQ # << >>
    /\ timerQ' = Tail(timerQ)
    /\ \/ /\ timers' = Append(timers, TimerTask(Head(timerQ), 0, clock))
          /\ UNCHANGED timerDb
       \/ /\ timerDb' = AddTimerToDb(timerDb, Head(timerQ), clock)
          /\ timers' = Append(timers,
                          TimerTask(Head(timerQ), timerDb.seq + 1, clock))
    /\ UNCHANGED << rssDb, weatherDb, clock, config, regPc, regPending, admins, handles,
                    actorPc, actorPending, actorQ, wire, mergeQ, dispQ, actionQ,
                    queryQ, mhPc, mhPending, observed, tasks, rssPc, timerPc,
                    joined, hist >>

\* sleep(time).await has completed: not before its deadline
SleepElapsed(now, started, time) == now >= started + time

\* start_timer after its send: a timer without a row is done; for a timer
\* with a row open_db fails and the row stays, or remove_from_db removes
\* the row, or its error panics the task (.unwrap()) and the row stays
AfterTimerSend(db_id) ==
    IF db_id = 0 THEN { [pc |-> "done", removed |-> FALSE] }
    ELSE { [pc |-> "done", removed |-> TRUE],
           [pc |-> "done", removed |-> FALSE],
           [pc |-> "panicked", removed |-> FALSE] }

\* the task of start_timer: time.to_std().unwrap() panics for a negative
\* duration; after the sleep, sender.send(action).await.unwrap() (an Err,
\* irc_loop's receiver being dropped, panics the task), then for a timer
\* with a row the removal of the row
TimerTaskSend(i) ==
    /\ Running
    /\ timers[i].pc = "sleep"
    /\ IF timers[i].time < 0
       THEN /\ timers' = [timers EXCEPT ![i].pc = "panicked"]
            /\ UNCHANGED << actionQ, timerDb, hist >>
       ELSE /\ SleepElapsed(clock, timers[i].started, timers[i].time)
            /\ IF RegGone
               THEN /\ timers' = [timers EXCEPT ![i].pc = "panicked"]
                    /\ UNCHANGED << actionQ, timerDb, hist >>
               ELSE /\ HasRoom(actionQ, ChanCap)
                    /\ actionQ' = Append(actionQ, timers[i].action)
                    /\ hist' = IF timers[i].db_id = 0 THEN hist
                               ELSE [hist EXCEPT !.fires = Append(@, timers[i].db_id)]
                    /\ \E after \in AfterTimerSend(timers[i].db_id) :
                          /\ timers' = [timers EXCEPT ![i].pc = after.pc,
                                                      ![i].sent = @ + 1,
                                                      ![i].sentAt = clock]
                          /\ timerDb' = IF after.removed
                                        THEN RemoveFromDb(timerDb, timers[i].db_id)
                                        ELSE timerDb
    /\ UNCHANGED << rssDb, weatherDb, timerQ, clock, config, regPc, regPending, admins,
                    handles, actorPc, actorPending, actorQ, wire, mergeQ, dispQ,
                    queryQ, mhPc, mhPending, observed, tasks, rssPc, timerPc,
                    joined >>

----------------------------------------------------------------------------
(* rss and weather_db called on one connection *)

\* add_feed_to_db called on a connection: the INSERT on feeds fails and
\* nothing is changed, or it succeeds, the id is read and the posts follow
CallAddFeedToDb(feed_data, target) ==
    /\ Running
    /\ hist.dbOps < MaxDbOps
    /\ \/ /\ UNCHANGED rssDb
          /\ hist' = [hist EXCEPT !.dbOps = @ + 1,
                         !.last = [op |-> "add", ok |-> FALSE, before |-> rssDb,
                                   feed_data |-> feed_data, target |-> target,
                                   inserted |-> 0]]
       \/ LET db1 == InsertFeed(rssDb, feed_data, target) IN
          \E feed_id \in FeedIdOf(db1.feeds, feed_data.url, target) :
             LET r == AddFeedToDb(db1, feed_data, target, feed_id) IN
             /\ rssDb' = r.db
             /\ hist' = [hist EXCEPT !.dbOps = @ + 1,
                            !.last = [op |-> "add", ok |-> r.ok, before |-> rssDb,
                                      feed_data |-> feed_data, target |-> target,
                                      inserted |-> NextRowId(rssDb.feeds)],
                            !.added = @ \cup
                               { [feed |-> NextRowId(rssDb.feeds),
                                  entry |-> feed_data.entries[k].id] :
                                    k \in DOMAIN feed_data.entries }]
    /\ UNCHANGED << weatherDb, timerDb, timerVars, config, regPc, regPending, admins,
                    handles, actorPc, actorPending, actorQ, wire, mergeQ, dispQ,
                    actionQ, queryQ, mhPc, mhPending, observed, tasks, rssPc,
                    timerPc, joined >>

\* remove_feed called on a connection
CallRemoveFeed(source, id, outcome) ==
    /\ Running
    /\ hist.dbOps < MaxDbOps
    /\ LET r == RemoveFeed(rssDb, source, id, outcome) IN
       /\ rssDb' = r.db
       /\ hist' = [hist EXCEPT !.dbOps = @ + 1,
                      !.last = [op |-> "remove", ok |-> r.ok, before |-> rssDb,
                                source |-> source, id |-> id]]
    /\ UNCHANGED << weatherDb, timerDb, timerVars, config, regPc, regPending, admins,
                    handles, actorPc, actorPending, actorQ, wire, mergeQ, dispQ,
                    actionQ, queryQ, mhPc, mhPending, observed, tasks, rssPc,
                    timerPc, joined >>

----------------------------------------------------------------------------
(* rss: refresh_feeds *)

\* entry_is_posted: SELECT * FROM posts WHERE id = ?1 AND feed = ?2 has a row
EntryIsPosted(posts, entry, feed_id) ==
    \E i \in DOMAIN posts : posts[i].id = entry.id /\ posts[i].feed = feed_id

\* format!("[{}] {} <{}>", feed.title, title, entry.links[0].href) sent as
\* a Message to the channel of the feed; feed and entry name the feed row
\* and the entry the action is about
FeedAnnouncement(feed, entry) ==
    [feed |-> feed.id, entry |-> entry.id,
     action |-> MessageAction(IrcChannel(feed.network, feed.channel),
                   << "[", feed.name, "] ",
                      IF entry.title = NoneStr THEN "" ELSE entry.title,
                      " <", entry.links[1], ">" >>)]

\* the second loop of refresh_feeds over to_output: the action of an entry
\* is sent, then add_entry_to_db inserts its row with .unwrap(): an id or
\* a url that is in posts already panics, the action being sent
RECURSIVE AnnounceEntries(_, _, _, _)
AnnounceEntries(posts, feed, to_output, outs) ==
    IF to_output = << >> THEN [panic |-> FALSE, posts |-> posts, outs |-> outs]
    ELSE LET e == Head(to_output)
             outs1 == Append(outs, FeedAnnouncement(feed, e))
         IN IF \E i \in DOMAIN posts :
                  posts[i].id = e.id \/ posts[i].url = e.links[1]
            THEN [panic |-> TRUE, posts |-> posts, outs |-> outs1]
            ELSE AnnounceEntries(
                     Append(posts,
                            PostRow(e.id, e.links[1],
                                    IF e.title = NoneStr THEN "" ELSE e.title,
                                    feed.id)),
                     feed, Tail(to_output), outs1)

\* refresh_feeds over the feeds get_all_feeds returned, fetched[k] being
\* what get_url and parse_feed gave for the k-th of them: a failure of
\* either returns from the cycle; otherwise the entries with a link that
\* entry_is_posted does not find are collected and then announced
RECURSIVE RefreshFeeds(_, _, _, _)
RefreshFeeds(posts, feeds, fetched, outs) ==
    IF feeds = << >> THEN [panic |-> FALSE, posts |-> posts, outs |-> outs]
    ELSE IF Head(fetched).kind # "ok"
    THEN [panic |-> FALSE, posts |-> posts, outs |-> outs]
    ELSE LET feed == Head(feeds)
             to_output == SelectSeq(Head(fetched).parsed.entries,
                             LAMBDA e : e.links # << >>
                                        /\ ~EntryIsPosted(posts, e, feed.id))
             r == AnnounceEntries(posts, feed, to_output, outs)
         IN IF r.panic THEN r
            ELSE RefreshFeeds(r.posts, Tail(feeds), Tail(fetched), r.outs)

\* what get_url and parse_feed can give for a url: the feed as it stands
\* at the moment, or the failure of one of the two
Fetched(url) ==
    { [kind |-> "ok", parsed |-> fd] : fd \in { d \in FeedDatas : d.url = url } }
       \cup { [kind |-> "fetchErr", parsed |-> Nil],
              [kind |-> "parseErr", parsed |-> Nil] }

\* the results of the fetches of a cycle, one for each feed
RECURSIVE FetchedAll(_)
FetchedAll(feeds) ==
    IF feeds = << >> THEN { << >> }
    ELSE { << f >> \o rest : f \in Fetched(Head(feeds).url),
                             rest \in FetchedAll(Tail(feeds)) }

\* rss_manager in refresh_feeds(sender_copy).await: a whole cycle, whose
\* actions hist.announced records as they are handed to sender.send (its
\* result is dropped); a panic of add_entry_to_db ends the task of
\* rss_manager, a return brings it back to its sleep
RssRefresh ==
    /\ Running
    /\ rssPc = "refresh"
    /\ hist.cycles < MaxCycles
    /\ \E fetched \in FetchedAll(rssDb.feeds) :
          LET r == RefreshFeeds(rssDb.posts, rssDb.feeds, fetched, << >>) IN
          /\ rssDb' = [rssDb EXCEPT !.posts = r.posts]
          /\ rssPc' = IF r.panic THEN "panicked" ELSE "sleep"
          /\ hist' = [hist EXCEPT !.cycles = @ + 1,
                                  !.announced = @ \o r.outs]
    /\ UNCHANGED << weatherDb, timerDb, timerVars, config, regPc, regPending,
                    admins, handles, actorPc, actorPending, actorQ, wire,
                    mergeQ, dispQ, actionQ, queryQ, mhPc, mhPending, observed,
                    tasks, timerPc, joined >>

----------------------------------------------------------------------------
(* weather_db: the table locations (id INTEGER PRIMARY KEY, network, nick,
   location, UNIQUE(network, nick) ON CONFLICT REPLACE) as the sequence of
   its rows in rowid order. *)

LocationRow(id, network, nick, location) ==
    [id |-> id, network |-> network, nick |-> nick, location |-> location]

\* a mutant of SameLocationKey: the rows of a nick on any network
SameLocationKeyNick(row, nick, network) == row.nick = nick

\* the rows of one (network, nick): the columns of the UNIQUE constraint
\* and of the WHERE clause of get_stored_location
SameLocationKey(row, nick, network) == row.nick = nick /\ row.network = network

\* set_location: the INSERT; ON CONFLICT REPLACE deletes the row that has
\* the same (network, nick) before the new row is inserted
SetLocation(rows, nick, network, location) ==
    LET kept == SelectSeq(rows, LAMBDA row : ~SameLocationKey(row, nick, network))
    IN Append(kept, LocationRow(NextRowId(rows), network, nick, location))

\* get_stored_location: the results the SELECT can give: None without a
\* matching row, else Some(location) of the first row of the result
GetStoredLocation(rows, nick, network) ==
    LET found == { i \in DOMAIN rows : SameLocationKey(rows[i], nick, network) }
    IN IF found = {} THEN { NoneStr }
       ELSE { rows[i].location : i \in found }

\* set_location called on a connection
CallSetLocation(nick, network, location) ==
    /\ Running
    /\ hist.dbOps < MaxWeatherOps
    /\ weatherDb' = SetLocation(weatherDb, nick, network, location)
    /\ hist' = [hist EXCEPT !.dbOps = @ + 1,
                   !.last = [op |-> "set", nick |-> nick, network |-> network,
                             location |-> location, before |-> weatherDb],
                   !.sets = Append(@, [nick |-> nick, network |-> network,
                                       location |-> location])]
    /\ UNCHANGED << rssDb, timerDb, timerVars, config, regPc, regPending, admins,
                    handles, actorPc, actorPending, actorQ, wire, mergeQ, dispQ,
                    actionQ, queryQ, mhPc, mhPending, observed, tasks, rssPc,
                    timerPc, joined >>

\* get_stored_location called on a connection
CallGetStoredLocation(nick, network) ==
    /\ Running
    /\ hist.dbOps < MaxWeatherOps
    /\ \E l \in GetStoredLocation(weatherDb, nick, network) :
          hist' = [hist EXCEPT !.dbOps = @ + 1,
                      !.last = [op |-> "get", nick |-> nick, network |-> network,
                                location |-> l, before |-> weatherDb]]
    /\ UNCHANGED << dbVars, timerVars, config, regPc, regPending, admins,
                    handles, actorPc, actorPending, actorQ, wire, mergeQ, dispQ,
                    actionQ, queryQ, mhPc, mhPending, observed, tasks, rssPc,
                    timerPc, joined >>

----------------------------------------------------------------------------
(* rss_manager, timer_manager and main *)

\* start_timer's task for a timer restored by timer_manager: the sleep has
\* elapsed; sender.send(action).await.unwrap() (an Err panics that task only)
TimerFireUpTo(a, max) ==
    /\ Running
    /\ hist.fired < max
    /\ IF RegGone
       THEN UNCHANGED actionQ
       ELSE /\ HasRoom(actionQ, ChanCap)
            /\ actionQ' = Append(actionQ, a)
    /\ hist' = [hist EXCEPT !.fired = @ + 1]
    /\ UNCHANGED << dbVars, timerVars, config, regPc, regPending, admins, handles, actorPc,
                    actorPending, actorQ, wire, mergeQ, dispQ, queryQ, mhPc,
                    mhPending, observed, tasks, rssPc, timerPc, joined >>

\* a timer firing within the bound on timers
TimerFire(a) == TimerFireUpTo(a, MaxTimers)

\* rss_manager: sleep(update_interval) elapses and refresh_feeds starts: it
\* opens the database (.unwrap()), or panics
RssWake ==
    /\ Running
    /\ rssPc = "sleep"
    /\ \/ rssPc' = "refresh"
       \/ rssPc' = "panicked"
    /\ UNCHANGED << dbVars, timerVars, config, regPc, regPending, admins, handles, actorPc,
                    actorPending, actorQ, wire, mergeQ, dispQ, actionQ, queryQ,
                    mhPc, mhPending, observed, tasks, timerPc, joined, hist >>

\* refresh_feeds returns (the result of each of its sends is discarded);
\* rss_manager loops into the next sleep
RssSleep ==
    /\ Running
    /\ rssPc = "refresh"
    /\ rssPc' = "sleep"
    /\ UNCHANGED << dbVars, timerVars, config, regPc, regPending, admins, handles, actorPc,
                    actorPending, actorQ, wire, mergeQ, dispQ, actionQ, queryQ,
                    mhPc, mhPending, observed, tasks, timerPc, joined, hist >>

\* a command task has ended and dropped its clones of the senders
TaskEnded(t) == t.pc \in {"done", "panicked"}

\* timer_manager: receiver.recv() yields None once message_handler and every
\* command task have dropped their timer senders
TimerManagerEnd ==
    /\ Running
    /\ timerPc = "recv"
    /\ mhPc = "done"
    /\ \A i \in DOMAIN tasks : TaskEnded(tasks[i])
    /\ timerPc' = "done"
    /\ UNCHANGED << dbVars, timerVars, config, regPc, regPending, admins, handles, actorPc,
                    actorPending, actorQ, wire, mergeQ, dispQ, actionQ, queryQ,
                    mhPc, mhPending, observed, tasks, rssPc, joined, hist >>

\* the k-th task main pushed has finished (returned or panicked)
TopTaskFinished(k) ==
    IF k = 1 THEN RegGone
    ELSE IF k = 2 THEN rssPc = "panicked"
    ELSE IF k = 3 THEN timerPc = "done"
    ELSE mhPc = "done"

\* for task in tasks { let _ = tokio::join!(task); }
MainJoin ==
    /\ Running
    /\ TopTaskFinished(joined + 1)
    /\ joined' = joined + 1
    /\ UNCHANGED << dbVars, timerVars, config, regPc, regPending, admins, handles, actorPc,
                    actorPending, actorQ, wire, mergeQ, dispQ, actionQ, queryQ,
                    mhPc, mhPending, observed, tasks, rssPc, timerPc, hist >>

\* main has returned: the runtime is shut down
ProcessExited == ~Running

----------------------------------------------------------------------------
(* Another holder of the query handle (ClientQuery is public): it sends an
   IsAdmin query for any network and mask, and may drop the receiving end of
   the reply slot before the answer. *)

ExternalQuery(network, mask, rxDropped) ==
    /\ Running
    /\ ~RegGone
    /\ hist.ext < MaxExtQueries
    /\ HasRoom(queryQ, ChanCap)
    /\ queryQ' = Append(queryQ, IsAdminQuery(0, network, mask, rxDropped))
    /\ hist' = [hist EXCEPT !.ext = @ + 1]
    /\ UNCHANGED << dbVars, timerVars, config, regPc, regPending, admins, handles, actorPc,
                    actorPending, actorQ, wire, mergeQ, dispQ, actionQ, mhPc,
                    mhPending, observed, tasks, rssPc, timerPc, joined >>

\* The receiving end of the dispatcher channel is dropped while irc_loop
\* runs (irc_loop is handed only the sending end): what is queued in the
\* channel is dropped with it.
DispatcherDrop ==
    /\ Running
    /\ regPc = "loop"
    /\ mhPc = "recv"
    /\ mhPc' = "done"
    /\ dispQ' = << >>
    /\ UNCHANGED << dbVars, timerVars, config, regPc, regPending, admins, handles, actorPc,
                    actorPending, actorQ, wire, mergeQ, actionQ, queryQ,
                    mhPending, observed, tasks, rssPc, timerPc, joined, hist >>

----------------------------------------------------------------------------
(* Specifications *)

ActorStep ==
    \E n \in ConfigNets :
        \/ ActorConnect(n)
        \/ \E m \in InboundMessages : ActorInbound(n, m)
        \/ ActorApply(n)

RegistryStep ==
    \/ IrcLoopStart
    \/ RegInbound
    \/ RegOutbound
    \/ RegAnswerQuery

HandlerStep ==
    \/ MhTurn
    \/ MhEnd
    \/ \E i \in DOMAIN tasks :
        \/ TaskSendQuery(i)
        \/ TaskAwaitReply(i)
        \/ TaskSendAction(i)

\* The routing core: irc_loop, its actors, message_handler, the command
\* tasks, and the timer tasks as the source of actions for any network.
Next ==
    \/ ActorStep
    \/ RegistryStep
    \/ HandlerStep
    \/ \E a \in TimerActions : TimerFire(a)

Spec == Init /\ [][Next]_vars

\* The Registry on its own with the holders of its handles: timer tasks
\* submit actions, and holders of the query handle send queries.
NextOpen ==
    \/ IrcLoopStart
    \/ RegOutbound
    \/ RegAnswerQuery
    \/ \E a \in TimerActions : TimerFire(a)
    \/ \E n \in AllNets, m \in Masks, d \in BOOLEAN : ExternalQuery(n, m, d)

SpecOpen == Init /\ [][NextOpen]_vars

\* irc_loop and its actors with a faulty environment: connection streams
\* that yield error items, and a dispatcher whose receiving end goes away.
NextFaulty ==
    \/ IrcLoopStart
    \/ \E n \in ConfigNets : ActorConnect(n)
    \/ \E n \in ConfigNets, m \in InboundMessages : ActorInbound(n, m)
    \/ \E n \in ConfigNets : ActorBadFrame(n)
    \/ \E n \in ConfigNets : ActorApply(n)
    \/ RegInbound
    \/ RegOutbound
    \/ MhTurn
    \/ DispatcherDrop

SpecFaulty == Init /\ [][NextFaulty]_vars

\* Bursts against the bounded channels, on a configuration with both
\* networks complete: either a burst of frames on irc1 that irc_loop and
\* message_handler may be slow to take, or a burst of timers for irc1 that
\* irc_loop and the actor may be slow to take. The connection of irc2 is
\* still being set up.
FullConfig ==
    [hasNetworks |-> TRUE,
     networks |-> << Descriptor("irc1", "srv", << StrEntry(AliceMask) >>),
                     Descriptor("irc2", "srv", << >>) >>]

InitFull == Init /\ config = FullConfig

FrameBurst ==
    /\ hist.fired = 0
    /\ ActorInboundUpTo("irc1", PlainMessage, MaxFrameBurst)

TimerBurst ==
    /\ hist.read["irc1"] = 0
    /\ \E a \in BurstActions : TimerFireUpTo(a, MaxActionBurst)

NextFull ==
    \/ IrcLoopStart
    \/ ActorConnect("irc1")
    \/ FrameBurst
    \/ TimerBurst
    \/ ActorApply("irc1")
    \/ RegInbound
    \/ RegOutbound
    \/ MhTurn

SpecFull == InitFull /\ [][NextFull]_vars

\* the tokens time arguments are made of, and arguments with other tokens,
\* with more tokens, and with a number that does not fit an i64
TimeTokens == { "2", "6", ":", "h", "m", "s" }

ExtraTimeArgs ==
    { << "3", "6", ":", "9", "0" >>,
      << "2", ".", "2", "6" >>,
      << "0", "6", "min" >>,
      << "1", "h", "5", "0", "m", "2", "s" >>,
      << "6", "0" >>,
      [i \in 1..20 |-> "9"],
      [i \in 1..20 |-> "9"] \o << "s" >> }

TimeArgs ==
    UNION { [1..n -> TimeTokens] : n \in 0..MaxTimeLen } \cup ExtraTimeArgs

\* the parameters of a call: a time argument, alone or followed by a text
CallParams ==
    { a \o << " ", "tea" >> : a \in TimeArgs } \cup ExtraTimeArgs

\* command_timer on its own, called once at some time of day
NextTimerCall ==
    \/ Tick
    \/ /\ tasks = << >>
       /\ \E ps \in CallParams, px \in {Alice, NoPrefix} :
             CallCommandTimer(IrcChannel("irc1", "#c"), ps, px)
    \/ \E i \in DOMAIN tasks : TaskSendAction(i)
    \/ \E i \in DOMAIN tasks : TaskSendConfirm(i)
    \/ \E i \in DOMAIN tasks : TaskSendTimer(i)

SpecTimerCall == InitFull /\ [][NextTimerCall]_vars

\* the functions of rss on one connection, called one after the other
NextRssDb ==
    \/ \E fd \in FeedDatas, t \in FeedTargets : CallAddFeedToDb(fd, t)
    \/ \E t \in FeedTargets, id \in 1..MaxDbOps, o \in DbOutcomes :
          CallRemoveFeed(t, id, o)

SpecRssDb == InitFull /\ [][NextRssDb]_vars

\* a frame message_handler answers inline
MattMessage == IrcMessage(Alice2, "PRIVMSG", "#c", TextMatt)

\* A burst of frames that message_handler answers inline, between the actor
\* of irc1, irc_loop and message_handler.
NextMatt ==
    \/ IrcLoopStart
    \/ ActorConnect("irc1")
    \/ ActorInboundUpTo("irc1", MattMessage, MaxMattFrames)
    \/ ActorApply("irc1")
    \/ RegInbound
    \/ RegOutbound
    \/ MhTurn

SpecMatt == InitFull /\ [][NextMatt]_vars

\* timers of irc1 fire before the frames arrive
QueryTimers ==
    /\ hist.read["irc1"] = 0
    /\ \E a \in BurstActions : TimerFireUpTo(a, MaxQueryActions)

\* the frames of irc1, which arrive while the action channel is full: an rss
\* command of an admin, then frames that message_handler answers inline
QueryFrames ==
    /\ actorPc["irc1"] = "run" => Len(actionQ) = ChanCap
    /\ ActorInboundUpTo("irc1",
                        IF hist.read["irc1"] = 0
                        THEN IrcMessage(Alice, "PRIVMSG", "#c", TextRssList)
                        ELSE MattMessage,
                        MaxQueryFrames)

\* Timers fire, then an rss command, whose task asks irc_loop whether its
\* sender is an admin, and a burst of frames behind it.
NextQuery ==
    \/ IrcLoopStart
    \/ ActorConnect("irc1")
    \/ QueryTimers
    \/ QueryFrames
    \/ ActorApply("irc1")
    \/ RegInbound
    \/ RegOutbound
    \/ RegAnswerQuery
    \/ MhTurn
    \/ \E i \in DOMAIN tasks : TaskSendQuery(i)
    \/ \E i \in DOMAIN tasks : TaskAwaitReply(i)

\* the runtime polls every task that can make progress, and select! takes a
\* branch that is ready
FairQuery ==
    /\ WF_vars(IrcLoopStart)
    /\ WF_vars(ActorConnect("irc1"))
    /\ WF_vars(QueryTimers)
    /\ WF_vars(QueryFrames)
    /\ WF_vars(ActorApply("irc1"))
    /\ WF_vars(RegInbound)
    /\ WF_vars(RegOutbound)
    /\ WF_vars(RegAnswerQuery)
    /\ WF_vars(MhTurn)
    /\ WF_vars(1 \in DOMAIN tasks /\ TaskSendQuery(1))
    /\ WF_vars(1 \in DOMAIN tasks /\ TaskAwaitReply(1))

SpecQuery == InitFull /\ [][NextQuery]_vars /\ FairQuery

\* timers of irc1 fire once the burst of frames has been read
TimerJam ==
    /\ hist.read["irc1"] = MaxJamFrames
    /\ \E a \in BurstActions : TimerFireUpTo(a, MaxJamActions)

\* A burst of frames on irc1 followed by timer actions for irc1, between the
\* actor of irc1 and irc_loop; message_handler, which takes from the
\* dispatcher channel only, is not scheduled meanwhile.
NextJam ==
    \/ IrcLoopStart
    \/ ActorConnect("irc1")
    \/ ActorInboundUpTo("irc1", PlainMessage, MaxJamFrames)
    \/ TimerJam
    \/ ActorApply("irc1")
    \/ RegInbound
    \/ RegOutbound

SpecJam == InitFull /\ [][NextJam]_vars

\* the feeds command adds to two channels
RefreshTargets == { IrcChannel("irc1", "#c"), IrcChannel("irc1", "#d") }

\* Feeds are added while rss_manager sleeps and refreshes.
NextRefresh ==
    \/ \E fd \in FeedDatas, t \in RefreshTargets : CallAddFeedToDb(fd, t)
    \/ RssWake
    \/ RssRefresh

SpecRefresh == InitFull /\ [][NextRefresh]_vars

\* calls of the timer command with relative times of 6 seconds and of
\* 0 minutes
TimerCallParams ==
    { << "6", "s", " ", "tea" >>, << "0", " ", "now" >> }

\* The timers: calls of command_timer send events to timer_manager, the
\* tasks of start_timer sleep and send their actions to irc_loop, which
\* hands them to the actor of irc1 once that is connected, or has failed.
NextTimer ==
    \/ IrcLoopStart
    \/ ActorConnect("irc1")
    \/ RegOutbound
    \/ Tick
    \/ \E ps \in TimerCallParams :
          CallCommandTimerUpTo(IrcChannel("irc1", "#c"), ps, Alice, MaxTimerEvents)
    \/ \E i \in DOMAIN tasks : TaskSendConfirm(i)
    \/ \E i \in DOMAIN tasks : TaskSendTimer(i)
    \/ TimerManagerRecv
    \/ \E i \in DOMAIN timers : TimerTaskSend(i)

\* tokio's timer wakes a sleeping task once its deadline has passed and the
\* runtime polls a task that can make progress
FairTimer ==
    /\ WF_vars(Tick)
    /\ \A i \in 1..MaxTimerEvents : WF_vars(i \in DOMAIN timers /\ TimerTaskSend(i))

SpecTimer == InitFull /\ [][NextTimer]_vars /\ FairTimer

\* remove_old_timers: DELETE FROM timers WHERE time < :now, with now the
\* timestamp of Utc::now() in whole seconds
RemoveOldTimers(db, now) ==
    [db EXCEPT !.rows = SelectSeq(@, LAMBDA row : ~(row.time < now))]

\* get_timers_from_db: time = target_dt - Utc::now() for a row, the clock
\* being read again with its fraction of a second: for a deadline in the
\* second of now the time is negative once that second has begun (late),
\* the model writing -1 for a negative time of less than a second
RemainingTime(row, now, late) ==
    IF row.time = now /\ late THEN 0 - 1 ELSE row.time - now

\* timer_manager's start: for (id, event) in old_timers
\* { start_timer(event, new_sender, Some(id)) }
RestoredTimers(db, now, late) ==
    [k \in DOMAIN db.rows |->
        TimerTask(TimerEvent(db.rows[k].target, db.rows[k].message,
                             RemainingTime(db.rows[k], now, late)),
                  db.rows[k].id, now)]

\* The process ends, at any point, and is started again at a later instant
\* (later in the same second, or in a later second on the second or after
\* it): the files of the databases are all that is left of the run before,
\* and timer_manager begins with remove_old_timers and a task of
\* start_timer for every row get_timers_from_db returns.
Restart ==
    /\ hist.restarts < MaxRestarts
    /\ \E now \in ClockMarks \cup Deadlines \cup { clock }, late \in BOOLEAN :
          /\ now >= clock
          /\ now = clock => late
          /\ clock' = now
          /\ timerDb' = RemoveOldTimers(timerDb, now)
          /\ timers' = RestoredTimers(timerDb', now, late)
          /\ hist' = [hist EXCEPT !.restarts = @ + 1, !.late = late]
    /\ regPc' = "start"
    /\ regPending' = Nil
    /\ admins' = EmptyMap
    /\ handles' = [x \in {} |-> ""]
    /\ actorPc' = [n \in ConfigNets |-> "absent"]
    /\ actorPending' = [n \in ConfigNets |-> Nil]
    /\ actorQ' = [n \in ConfigNets |-> << >>]
    /\ wire' = [n \in ConfigNets |-> << >>]
    /\ mergeQ' = << >>
    /\ dispQ' = << >>
    /\ actionQ' = << >>
    /\ queryQ' = << >>
    /\ mhPc' = "recv"
    /\ mhPending' = Nil
    /\ observed' = << >>
    /\ tasks' = << >>
    /\ rssPc' = "sleep"
    /\ timerPc' = "recv"
    /\ joined' = 0
    /\ timerQ' = << >>
    /\ UNCHANGED << config, rssDb, weatherDb >>

\* The timers over runs of the process: calls of command_timer, timer_manager
\* and the tasks of start_timer, whose actions stay on the action channel,
\* with the timers table outliving the process.
NextTimerDb ==
    \/ Tick
    \/ \E ps \in TimerCallParams :
          CallCommandTimer(IrcChannel("irc1", "#c"), ps, Alice)
    \/ \E i \in DOMAIN tasks : TaskSendConfirm(i)
    \/ \E i \in DOMAIN tasks : TaskSendTimer(i)
    \/ TimerManagerRecv
    \/ \E i \in DOMAIN timers : TimerTaskSend(i)
    \/ Restart

SpecTimerDb == InitFull /\ [][NextTimerDb]_vars

\* the rss command in its three forms, from an admin of irc1 and from a
\* sender with another host
RssMessages ==
    { IrcMessage(p, "PRIVMSG", "#c", t) :
         p \in { Alice, Alice2 }, t \in { TextRssAdd, TextRss, TextRssList } }

\* The rss command from the frame to the reply: irc_loop answers the admin
\* query of the command task, command_rss works on the database, and
\* another holder of the query handle may bring irc_loop down meanwhile.
NextRss ==
    \/ IrcLoopStart
    \/ \E n \in ConfigNets : ActorConnect(n)
    \/ \E n \in ConfigNets, m \in RssMessages : ActorInbound(n, m)
    \/ \E n \in ConfigNets : ActorApply(n)
    \/ RegInbound
    \/ RegOutbound
    \/ RegAnswerQuery
    \/ MhTurn
    \/ \E i \in DOMAIN tasks : TaskSendQuery(i)
    \/ \E i \in DOMAIN tasks : TaskAwaitReplyWith(i, RssOutcomes)
    \/ \E i \in DOMAIN tasks : TaskFetched(i)
    \/ \E i \in DOMAIN tasks : TaskSendAction(i)
    \/ ExternalQuery("irc1", AliceMask, TRUE)

SpecRss == InitFull /\ [][NextRss]_vars

\* the nicks, networks and locations of tests::weatherdb_setget, and a
\* second nick
WeatherNicks == { "testnick", "othernick" }
WeatherNetworks == { "testnetwork", "anothernetwork" }
WeatherLocations == { "helsinki", "tampere" }

\* the functions of weather_db on one connection, called one after the other
NextWeatherDb ==
    \/ \E n \in WeatherNicks, w \in WeatherNetworks, l \in WeatherLocations :
          CallSetLocation(n, w, l)
    \/ \E n \in WeatherNicks, w \in WeatherNetworks : CallGetStoredLocation(n, w)

SpecWeatherDb == InitFull /\ [][NextWeatherDb]_vars

\* message_handler with frames of every kind: text messages sent to a
\* channel or to the bot, and other commands.
NextKinds ==
    \/ IrcLoopStart
    \/ \E n \in ConfigNets : ActorConnect(n)
    \/ \E n \in ConfigNets, m \in KindMessages : ActorInbound(n, m)
    \/ RegInbound
    \/ MhTurn
    \/ \E i \in DOMAIN tasks : TaskSendAction(i)

SpecKinds == Init /\ [][NextKinds]_vars

\* The reply path: frames that are answered, from the connection that
\* yields them through message_handler and its tasks back to a connection.
NextReply ==
    \/ IrcLoopStart
    \/ \E n \in ConfigNets : ActorConnect(n)
    \/ \E n \in ConfigNets, m \in ReplyMessages : ActorInbound(n, m)
    \/ \E n \in ConfigNets : ActorApply(n)
    \/ RegInbound
    \/ RegOutbound
    \/ MhTurn
    \/ \E i \in DOMAIN tasks : TaskSendAction(i)
    \/ \E i \in DOMAIN tasks : TaskSendExtra(i)
    \/ \E i \in DOMAIN tasks : TaskSendMain(i)

SpecReply == Init /\ [][NextReply]_vars

\* The top-level tasks of main over process startup and shutdown: irc_loop's
\* startup, the end of message_handler and timer_manager, rss_manager's
\* cycle, and main's joins.
NextTop ==
    \/ IrcLoopStart
    \/ MhEnd
    \/ TimerManagerEnd
    \/ RssWake
    \/ RssSleep
    \/ MainJoin

\* Every task that can run is eventually run by the tokio scheduler, and a
\* sleep elapses; the failure of the database is not forced to happen.
FairTop ==
    /\ WF_vars(IrcLoopStart)
    /\ WF_vars(MhEnd)
    /\ WF_vars(TimerManagerEnd)
    /\ WF_vars(RssWake)
    /\ WF_vars(RssSleep)
    /\ WF_vars(MainJoin)

SpecTop == Init /\ [][NextTop]_vars /\ FairTop


----------------------------------------------------------------------------
(* Properties *)

\* the step in which irc_loop takes the next action off the action channel
TakesAction == regPc = "loop" /\ actionQ # << >> /\ actionQ' = Tail(actionQ)

\* C1 (routing correctness): an action whose target.network is N1 is never
\* on the channel of another network's actor, never held by irc_loop for
\* another actor, and never sent on another network's connection.
C1_RoutingCorrect ==
    /\ \A n \in ConfigNets :
          /\ \A i \in DOMAIN actorQ[n] : actorQ[n][i].target.network = n
          /\ \A i \in DOMAIN wire[n] : wire[n][i].action.target.network = n
    /\ regPc = "sendActor" => regPending.action.target.network = regPending.to

\* both connections have carried an action
C1_Witness == wire["irc1"] # << >> /\ wire["irc2"] # << >>

\* C2 (the Registry tolerates a dead actor): once an actor has terminated,
\* no step ends irc_loop; in particular an action addressed to the dead
\* actor's network leaves it in its loop.
C2_DeadActorTolerated ==
    [][ (~RegGone /\ \E n \in ConfigNets : actorPc[n] = "dead") => ~RegGone' ]_vars

\* C3 (abandoned admin query): when irc_loop takes a query whose reply slot
\* has lost its receiving end, it stays in its loop.
C3_AbandonedQueryIsNoOp ==
    [][ (regPc = "loop" /\ queryQ # << >> /\ Head(queryQ).rxDropped
          /\ Len(queryQ') < Len(queryQ))
        => regPc' = "loop" ]_vars

\* C4 (unknown-network drop): when irc_loop takes an action whose
\* target.network is no key of the handle mapping, nothing is delivered to
\* any actor or connection and irc_loop stays in its loop with the mapping
\* unchanged; and an action it takes after such a drop for a configured
\* network with a running actor is put on that actor's channel.
C4_UnknownNetworkDrop ==
    [][ TakesAction =>
          LET a == Head(actionQ) IN
          /\ a.target.network \notin DOMAIN handles =>
                /\ actorQ' = actorQ
                /\ wire' = wire
                /\ regPc' = "loop"
                /\ handles' = handles
          /\ ( /\ hist.dropped > 0
               /\ a.target.network \in DOMAIN handles
               /\ actorPc[a.target.network] # "dead" ) =>
                /\ actorQ'[a.target.network] = Append(actorQ[a.target.network], a)
                /\ regPc' = "loop" ]_vars

\* an action for an unknown network was dropped, and an action taken later
\* reached its actor's channel and then the connection
C4_Witness ==
    /\ hist.dropped > 0
    /\ hist.routedAfterDrop
    /\ regPc = "loop"
    /\ \E n \in ConfigNets : wire[n] # << >>

\* C5 (inbound order preservation): the events message_handler has received
\* from one network are in the order in which that network's connection
\* yielded them.
C5_InboundOrder ==
    \A i, j \in DOMAIN observed :
        (i < j /\ observed[i].network = observed[j].network)
            => observed[i].seq < observed[j].seq

\* message_handler has received two events of one network
C5_Witness ==
    \E i, j \in DOMAIN observed :
        i < j /\ observed[i].network = observed[j].network

\* mask is one of the strings configured as admins of exactly this network
ConfiguredAdmin(cfg, network, mask) ==
    \E i \in DOMAIN cfg.networks :
        /\ cfg.networks[i].network = network
        /\ \E k \in DOMAIN cfg.networks[i].admins :
              cfg.networks[i].admins[k] = StrEntry(mask)

\* C6 (admin match is exact and per network): every answer irc_loop has
\* given to IsAdmin(network, mask) is true exactly when mask is a string of
\* the admins list configured for that network.
C6_AdminMatchExact ==
    \A r \in hist.answers : r.answer = ConfiguredAdmin(config, r.network, r.mask)

\* one and the same mask was answered true on one network and false on
\* another, and irc_loop is still in its loop
C6_Witness ==
    /\ \E r1, r2 \in hist.answers :
          r1.answer /\ ~r2.answer /\ r1.mask = r2.mask /\ r1.network # r2.network
    /\ regPc = "loop"

\* the messages received by message_handler that spawned a command task
CommandEvents ==
    SelectSeq(observed, LAMBDA ev :
        Spawned(IrcChannel(ev.network, ResponseTarget(ev.message)), ev.message) # << >>)

\* C7 (admin fail-closed): the task of an admin-gated command whose sender
\* prefix is absent or no nick/user/host triple has is_admin = false, has
\* sent no query and never runs the command.
C7_AdminFailClosed ==
    /\ Len(CommandEvents) = Len(tasks)
    /\ \A i \in DOMAIN tasks :
          (tasks[i].command = "rss" /\ CommandEvents[i].message.prefix.kind # "Nickname")
          => /\ tasks[i].ret = "false"
             /\ tasks[i].pc = "done"
             /\ tasks[i].reply = "none"
             /\ \A k \in DOMAIN queryQ : queryQ[k].slot # i

\* a sender without a triple was refused on a network that has an admin
C7_Witness ==
    \E i \in DOMAIN tasks :
        /\ tasks[i].command = "rss"
        /\ CommandEvents[i].message.prefix.kind = "ServerName"
        /\ tasks[i].ret = "false"
        /\ tasks[i].source.network \in DOMAIN admins
        /\ admins[tasks[i].source.network] # << >>

\* C8 (a dropped query reads as "not admin"): is_admin never panics, and
\* once its reply slot is closed without an answer it returns false.
C8_DroppedQueryIsNotAdmin ==
    \A i \in DOMAIN tasks :
        tasks[i].command = "rss" =>
            /\ ~(tasks[i].pc = "panicked" /\ tasks[i].ret = "none")
            /\ (tasks[i].reply = "closed" /\ tasks[i].pc # "awaitReply")
                  => tasks[i].ret = "false"

\* C9 (no partial startup): with a descriptor that lacks its name or its
\* server, no Connection Actor exists for any network.
C9_NoPartialStartup ==
    DescriptorError(config) => \A n \in ConfigNets : actorPc[n] = "absent"

\* irc_loop has returned on a configuration whose first descriptor is
\* complete and whose second is not
C9_Witness ==
    /\ regPc = "returned"
    /\ config.hasNetworks
    /\ Complete(config.networks[1])
    /\ ~Complete(config.networks[2])

\* C10 (a configuration error ends the process): with a descriptor that
\* lacks a required field, main eventually joins all four tasks and returns.
C10_ConfigErrorExits ==
    DescriptorError(config) => <>ProcessExited

\* C11 (an action is consumed exactly once): the action irc_loop takes off
\* the action channel goes to the channel of the one actor registered under
\* its target.network, or is held for it while that channel is full, or goes
\* nowhere; an actor's channel grows by nothing else; and a call on a
\* connection is made for the oldest action of that actor's channel, which
\* leaves the channel in the same step.
C11_ConsumedOnce ==
    [][ /\ TakesAction =>
              LET a == Head(actionQ)
                  n == a.target.network
              IN IF n \in DOMAIN handles /\ actorPc[handles[n]] # "dead"
                 THEN \/ actorQ' = [actorQ EXCEPT ![n] = Append(@, a)]
                      \/ /\ actorQ' = actorQ
                         /\ regPc' = "sendActor"
                         /\ regPending' = [to |-> n, action |-> a]
                 ELSE actorQ' = actorQ
        /\ \A n \in ConfigNets :
              Len(actorQ'[n]) > Len(actorQ[n]) =>
                  /\ TakesAction \/ regPc = "sendActor"
                  /\ Len(actorQ'[n]) = Len(actorQ[n]) + 1
                  /\ \A k \in ConfigNets \ {n} : actorQ'[k] = actorQ[k]
        /\ \A n \in ConfigNets :
              wire'[n] # wire[n] =>
                  /\ actorQ[n] # << >>
                  /\ Len(wire'[n]) = Len(wire[n]) + 1
                  /\ SubSeq(wire'[n], 1, Len(wire[n])) = wire[n]
                  /\ wire'[n][Len(wire'[n])].action = Head(actorQ[n])
                  /\ actorQ'[n] = Tail(actorQ[n]) ]_vars

\* one connection has carried two actions and its actor's channel is empty
\* again, and an action for an unknown network was dropped
C11_Witness ==
    /\ \E n \in ConfigNets : Len(wire[n]) >= 2 /\ actorQ[n] = << >>
    /\ hist.dropped > 0

\* the events on their way to message_handler and those it has received,
\* oldest first
InboundPath ==
    observed \o dispQ
        \o (IF regPc = "sendDown" THEN << regPending >> ELSE << >>)
        \o mergeQ

\* C12 (inbound delivery): every event between an actor and message_handler
\* carries the network name of the actor that read it and the frame as it
\* was read, and no frame of a connection is there twice.
C12_InboundAtMostOnce ==
    /\ \A i \in DOMAIN InboundPath :
          /\ InboundPath[i].network = InboundPath[i].by
          /\ InboundPath[i].message = InboundPath[i].orig
    /\ \A i, j \in DOMAIN InboundPath :
          (i # j) => << InboundPath[i].by, InboundPath[i].seq >>
                        # << InboundPath[j].by, InboundPath[j].seq >>
    /\ \A n \in ConfigNets :
          actorPc[n] = "sendMerge" =>
              /\ actorPending[n].network = n
              /\ actorPending[n].message = actorPending[n].orig

\* message_handler has received an event of each network, one read by the
\* actor of irc1 and one read by the actor of irc2
C12_Witness ==
    /\ \E i \in DOMAIN observed : observed[i].by = "irc1" /\ observed[i].network = "irc1"
    /\ \E i \in DOMAIN observed : observed[i].by = "irc2" /\ observed[i].network = "irc2"

\* the actions the actor of network n has received: those it has applied,
\* then those waiting in its channel
Received(n) ==
    [i \in DOMAIN wire[n] |-> wire[n][i].action] \o actorQ[n]

\* the two actions one h33h3 task submits, in this order
HarAction(n) ==
    MessageAction(IrcChannel(n, "#c"), << "<W> har har har" >>)
CryAction(n) ==
    EmoteAction(IrcChannel(n, "#c"), << "am cry" >>)

\* how often action a occurs among the first k elements of q
CountIn(q, k, a) == Cardinality({i \in 1..k : q[i] = a})

\* C13 (outbound FIFO): of the two actions an h33h3 task submits one after
\* the other for the same network, the second is never received by the
\* actor, nor applied to the connection, ahead of the first: at every point
\* of what the actor has received (of which what it has applied is the front
\* part) there are at least as many first actions as second ones.
C13_OutboundFifo ==
    \A n \in ConfigNets :
        \A k \in 1..Len(Received(n)) :
            CountIn(Received(n), k, CryAction(n)) <= CountIn(Received(n), k, HarAction(n))

\* both actions of one h33h3 task were applied to a connection, the first
\* one earlier
C13_Witness ==
    \E n \in ConfigNets : \E i, j \in DOMAIN wire[n] :
        /\ i < j
        /\ wire[n][i].action = HarAction(n)
        /\ wire[n][j].action = CryAction(n)

\* C14 (downstream endpoint gone): when irc_loop takes an event off the merge
\* channel while the receiving end of the dispatcher channel is gone, it
\* returns.
C14_DownstreamGoneReturns ==
    [][ ( /\ regPc = "loop"
          /\ mhPc = "done"
          /\ mergeQ # << >>
          /\ Len(mergeQ') < Len(mergeQ) )
        => regPc' = "returned" ]_vars

\* C19 (malformed frames are recovered locally): the step in which a stream
\* yields an error item puts nothing on the merge channel and leaves every
\* actor where it was, with its channel and its connection as they were.
C19_BadFrameRecovered ==
    [][ hist'.bad # hist.bad =>
            /\ mergeQ' = mergeQ
            /\ actorPending' = actorPending
            /\ actorPc' = actorPc
            /\ actorQ' = actorQ
            /\ wire' = wire ]_vars

\* after an error item on a connection, its actor read a later frame that
\* reached message_handler; the actor is in its loop and its connection has
\* carried an action
C19_Witness ==
    /\ hist.bad > 0
    /\ \E i \in DOMAIN observed :
          observed[i].by = hist.badOn /\ observed[i].seq > hist.badSeq
    /\ \E n \in ConfigNets : n = hist.badOn /\ wire[n] # << >> /\ actorPc[n] = "run"

\* the messages received by message_handler that spawned a task, in the
\* order of the tasks
TaskEvents ==
    SelectSeq(observed, LAMBDA ev :
        \E sp \in SpawnChoices(IrcChannel(ev.network, ResponseTarget(ev.message)),
                               ev.message) : sp # << >>)

\* where the replies to an event belong: the network it was received on and
\* the channel it was sent to
Origin(ev) == [network |-> ev.by, channel |-> ev.message.target]

\* every action submitted or on its way to a connection
ActionsInFlight ==
    Range(actionQ)
        \cup UNION { Range(actorQ[n]) : n \in ConfigNets }
        \cup UNION { { wire[n][i].action : i \in DOMAIN wire[n] } : n \in ConfigNets }
        \cup (IF regPc = "sendActor" THEN { regPending.action } ELSE {})
        \cup (IF mhPc = "sendMatt" THEN { mhPending } ELSE {})

\* C15 (replies go back to the origin): the actions a task holds for the
\* message that spawned it are for the network the message was received on
\* and for its channel; an action is submitted only in the turn of
\* message_handler for a message, with that message's origin as target, or
\* by a task, with the origin of the task's message as target; and no action
\* anywhere is for a network and channel no message came from.
C15_RepliesToOrigin ==
    /\ [] ( /\ Len(TaskEvents) = Len(tasks)
            /\ \A i \in DOMAIN tasks :
                  /\ tasks[i].source = Origin(TaskEvents[i])
                  /\ tasks[i].out # Nil => tasks[i].out.target = Origin(TaskEvents[i])
                  /\ tasks[i].extra # Nil => tasks[i].extra.target = Origin(TaskEvents[i])
            /\ \A a \in ActionsInFlight :
                  \E i \in DOMAIN observed : a.target = Origin(observed[i]) )
    /\ [][ Len(actionQ') > Len(actionQ) =>
              /\ Len(actionQ') = Len(actionQ) + 1
              /\ LET a == actionQ'[Len(actionQ')] IN
                 IF observed' # observed
                 THEN a.target = Origin(observed'[Len(observed')])
                 ELSE \E i \in DOMAIN tasks :
                         /\ tasks'[i] # tasks[i]
                         /\ a.target = Origin(TaskEvents[i]) ]_vars

\* a reply of a task reached channel #c of one network and an inline reply
\* reached channel #d of the other
C15_Witness ==
    \E n, k \in ConfigNets :
        /\ n # k
        /\ \E i \in DOMAIN wire[n] : wire[n][i].to = "#c" /\ wire[n][i].action.target.network = n
        /\ \E j \in DOMAIN wire[k] : wire[k][j].to = "#d" /\ wire[k][j].action.target.network = k

\* the one frame of the echo scenario has been read on irc1 and received by
\* message_handler, and no other frame has been read
EchoScenario ==
    /\ hist.read["irc1"] = 1
    /\ hist.read["irc2"] = 0
    /\ Len(observed) = 1
    /\ observed[1].by = "irc1"
    /\ observed[1].message = IrcMessage(Alice, "PRIVMSG", "#c", TextEcho)

\* the action the scenario expects: "alice!a@host: hi" to irc1, same channel
EchoExpected ==
    [target |-> [network |-> "irc1", channel |-> "#c"],
     action_type |-> [kind |-> "Message",
                      text |-> << "alice", "!", "a", "@", "host", ": ", "hi" >>]]

\* how many actions are submitted or on their way to a connection
ActionCount ==
    Len(actionQ) + Len(actorQ["irc1"]) + Len(actorQ["irc2"])
        + Len(wire["irc1"]) + Len(wire["irc2"])
        + (IF regPc = "sendActor" THEN 1 ELSE 0)

\* C16 (echo scenario): with irc1 and irc2 configured and ".echo hi" from
\* alice!a@host on irc1 as the only frame, there is never more than one
\* action, it is Message("alice!a@host: hi") for irc1 and the frame's
\* channel, nothing is ever for irc2, and once the command task is done
\* (with irc_loop and the actor of irc1 alive) there is exactly one.
C16_EchoScenario ==
    EchoScenario =>
        /\ DOMAIN handles = {"irc1", "irc2"}
        /\ ActionsInFlight \subseteq { EchoExpected }
        /\ ActionCount <= 1
        /\ actorQ["irc2"] = << >> /\ wire["irc2"] = << >>
        /\ \A i \in DOMAIN wire["irc1"] :
              /\ wire["irc1"][i].call = "PRIVMSG"
              /\ wire["irc1"][i].to = "#c"
              /\ wire["irc1"][i].text = << "alice", "!", "a", "@", "host", ": ", "hi" >>
        /\ Len(tasks) = 1
        /\ (tasks[1].pc = "done" /\ ~RegGone /\ actorPc["irc1"] # "dead")
              => ActionCount = 1

\* the scenario has run to its end: the one action was sent on irc1
C16_Witness ==
    /\ EchoScenario
    /\ Len(wire["irc1"]) = 1
    /\ wire["irc1"][1].action = EchoExpected
    /\ actorPc["irc2"] = "run"

\* C17 (a handler never blocks the dispatcher): whenever message_handler is
\* at its receive with an event queued, its next turn can be taken, whatever
\* the tasks it has spawned are doing.
C17_HandlerNeverBlocks ==
    (Running /\ mhPc = "recv" /\ dispQ # << >>) => ENABLED MhTurn

\* message_handler has received a second message and is ready for a third
\* while the task spawned for the first message has not sent anything yet
C17_Witness ==
    /\ Len(observed) = 2
    /\ mhPc = "recv"
    /\ Len(tasks) >= 1
    /\ TaskEvents[1] = observed[1]
    /\ tasks[1].pc \in {"sendAction", "sendExtra"}

\* C20 (how an actor applies an action): an actor makes exactly one call for
\* the action it takes out of its channel, on its own connection and on no
\* other: PRIVMSG for a Message payload, ACTION for an Action payload, to
\* the action's target channel, with the payload's text.
C20_ActorApplies ==
    [][ \A n \in ConfigNets :
          Len(actorQ'[n]) < Len(actorQ[n]) /\ actorPc'[n] # "dead" =>
              LET a == Head(actorQ[n])
                  c == wire'[n][Len(wire'[n])]
              IN /\ Len(wire'[n]) = Len(wire[n]) + 1
                 /\ \A k \in ConfigNets \ {n} : wire'[k] = wire[k]
                 /\ a.action_type.kind = "Message" => c.call = "PRIVMSG"
                 /\ a.action_type.kind = "Action" => c.call = "ACTION"
                 /\ c.to = a.target.channel
                 /\ c.text = a.action_type.text ]_vars

\* a connection has carried a text message and an emote
C20_Witness ==
    \E n \in ConfigNets : \E i, j \in DOMAIN wire[n] :
        /\ wire[n][i].call = "PRIVMSG"
        /\ wire[n][j].call = "ACTION"
        /\ wire[n][j].text = << "am cry" >>

\* the frames of network n that are on their way to message_handler or
\* received by it, with the one its suspended actor holds, oldest first
FramesOf(n) ==
    SelectSeq(InboundPath, LAMBDA ev : ev.by = n)
        \o (IF actorPc[n] = "sendMerge" THEN << actorPending[n] >> ELSE << >>)

\* C18 (bounded queues with backpressure): the action, query and dispatcher
\* channels and every actor's channel hold at most 10 values and the merge
\* channel at most 100; while irc_loop, message_handler and the actors are
\* alive every frame read and every timer action fired is still there, in
\* order, in a channel, with a suspended sender, or at its destination; and
\* a sender suspends only in front of a full channel, as a timer task waits
\* while the action channel is full.
C18_BoundedQueues ==
    /\ [] ( /\ Len(actionQ) <= 10
            /\ Len(queryQ) <= 10
            /\ Len(dispQ) <= 10
            /\ \A n \in ConfigNets : Len(actorQ[n]) <= 10
            /\ Len(mergeQ) <= 100
            /\ (~RegGone /\ mhPc # "done") =>
                  \A n \in ConfigNets :
                      /\ Len(FramesOf(n)) = hist.read[n]
                      /\ \A i \in DOMAIN FramesOf(n) : FramesOf(n)[i].seq = i
            /\ (~RegGone /\ \A n \in ConfigNets : actorPc[n] # "dead") =>
                  ActionCount = hist.fired - hist.dropped )
    /\ [][ /\ \A n \in ConfigNets :
                (actorPc[n] = "run" /\ actorPc'[n] = "sendMerge") => Len(mergeQ) = 100
           /\ (regPc = "loop" /\ regPc' = "sendDown") => Len(dispQ) = 10
           /\ (regPc = "loop" /\ regPc' = "sendActor") =>
                  Len(actorQ[regPending'.to]) = 10
           /\ (hist'.fired # hist.fired /\ ~RegGone) =>
                  Len(actionQ) < 10 /\ Len(actionQ') = Len(actionQ) + 1 ]_vars

\* the dispatcher channel and the merge channel are full, irc_loop is
\* suspended in its send downstream and the actor in its send to the merge
\* channel
C18_Witness ==
    /\ Len(dispQ) = 10
    /\ regPc = "sendDown"
    /\ Len(mergeQ) = 100
    /\ actorPc["irc1"] = "sendMerge"

\* C21 (the mappings are read-only in the loop): once irc_loop has entered
\* its loop, no step changes the admins mapping or the handle mapping:
\* forwarding an inbound event, routing or dropping an action and answering
\* an admin query all leave both as they were built at startup.
C21_MappingsReadOnly ==
    [][ regPc # "start" => (admins' = admins /\ handles' = handles) ]_vars

\* irc_loop, still in its loop with both mappings filled, has forwarded an
\* event, dropped an action, routed an action and answered a query
C21_Witness ==
    /\ regPc = "loop"
    /\ observed # << >>
    /\ hist.dropped > 0
    /\ \E n \in ConfigNets : wire[n] # << >>
    /\ hist.answers # {}
    /\ DOMAIN handles # {}
    /\ \E n \in DOMAIN admins : admins[n] # << >>

\* a message the dispatcher is to ignore: no text message, or a text message
\* sent to no channel by a sender without a nick
Ignorable(m) ==
    \/ m.command # "PRIVMSG"
    \/ m.target \notin {"#c", "#d"} /\ m.prefix.kind # "Nickname"

\* C22 (other kinds are ignored): the turn of message_handler for a message
\* that is no text message, or a text message without a response target,
\* spawns no task and submits no action, timer event or query and leaves
\* message_handler at its receive; and while every message received so far
\* is of these, there is no task, action, timer event or query at all.
C22_OtherKindsIgnored ==
    /\ [][ (observed' # observed /\ Ignorable(observed'[Len(observed')].message)) =>
              /\ tasks' = tasks
              /\ actionQ' = actionQ
              /\ timerQ' = timerQ
              /\ queryQ' = queryQ
              /\ mhPc' = "recv" ]_vars
    /\ [] ( (\A i \in DOMAIN observed : Ignorable(observed[i].message)) =>
              /\ tasks = << >>
              /\ actionQ = << >>
              /\ timerQ = << >>
              /\ queryQ = << >>
              /\ timers = << >> )

\* message_handler has received a notice and a text message without a
\* response target and is at its receive, with irc_loop in its loop
C22_Witness ==
    /\ \E i \in DOMAIN observed : observed[i].message.command = "NOTICE"
    /\ \E i \in DOMAIN observed :
          /\ observed[i].message.command = "PRIVMSG"
          /\ ResponseTarget(observed[i].message) = NoneStr
    /\ mhPc = "recv"
    /\ regPc = "loop"
    /\ tasks = << >>

\* the time argument of the call a task of command_timer was made for
TimePart(t) == TimeSplit(t.params).time_part

\* a time argument of the form HH:MM or HH.MM that is no time of day
BadTimeOfDay(tp) ==
    /\ MatchHHMM(tp)
    /\ \/ DigitsValue(SubSeq(tp, 1, Len(tp) - 3)) > 23
       \/ DigitsValue(SubSeq(tp, Len(tp) - 1, Len(tp))) > 59

\* C23 (a time that is no time of day): for a time argument HH:MM or HH.MM
\* with an hour above 23 or a minute above 59, command_timer never sends a
\* timer event, has sent nothing while it waits in its send, and once it has
\* ended has sent exactly one action, "Unable to parse time from <time
\* argument>", to the source channel.
C23_UnparsableTime ==
    \A i \in DOMAIN tasks :
        (tasks[i].command = "timer" /\ BadTimeOfDay(TimePart(tasks[i]))) =>
            /\ timerQ = << >>
            /\ timers = << >>
            /\ tasks[i].pc \in {"sendAction", "done"}
            /\ tasks[i].pc = "sendAction" => actionQ = << >>
            /\ tasks[i].pc = "done" =>
                  actionQ = << [target |-> tasks[i].source,
                                action_type |->
                                   [kind |-> "Message",
                                    text |-> << "Unable to parse time from " >>
                                               \o TimePart(tasks[i])]] >>

\* the call with "36:90" has ended with its one action on the action channel
C23_Witness ==
    /\ Len(tasks) = 1
    /\ tasks[1].pc = "done"
    /\ TimePart(tasks[1]) = << "3", "6", ":", "9", "0" >>
    /\ tasks[1].prefix = Alice
    /\ Len(actionQ) = 1
    /\ actionQ[1].action_type.text =
          << "Unable to parse time from ", "3", "6", ":", "9", "0" >>
    /\ timerQ = << >>

\* a relative time argument: hours, minutes and seconds, or a bare number,
\* with numbers of at most nine digits
RelativeArg(tp) ==
    /\ ~MatchHHMM(tp)
    /\ MatchHMS(tp).ok \/ MatchMinutes(tp)
    /\ \A p \in DOMAIN tp : DigitRun(tp, p) <= 9

\* the duration in seconds a relative time argument stands for
RelativeSeconds(tp) ==
    IF MatchHMS(tp).ok
    THEN DigitsValue(MatchHMS(tp).caps[1]) * 3600
           + DigitsValue(MatchHMS(tp).caps[2]) * 60
           + DigitsValue(MatchHMS(tp).caps[3])
    ELSE DigitsValue(tp) * 60

C25_ConfirmThenEvent ==
    \A i \in DOMAIN tasks :
        (tasks[i].command = "timer" /\ ParseTime(TimePart(tasks[i]), 0).kind = "ok") =>
            /\ Len(actionQ) <= 1
            /\ Len(timerQ) <= 1
            /\ timerQ # << >> => actionQ # << >>
            /\ \A k \in DOMAIN actionQ :
                  /\ actionQ[k].target = tasks[i].source
                  /\ actionQ[k].action_type.kind = "Message"
            /\ \A k \in DOMAIN timerQ :
                  /\ timerQ[k].target = tasks[i].source
                  /\ timerQ[k].message =
                        (IF tasks[i].prefix.kind = "Nickname"
                         THEN tasks[i].prefix.nick \o << ": " >>
                         ELSE << "Timer: " >>)
                          \o TimeSplit(tasks[i].params).message_part
            /\ tasks[i].pc = "done" => Len(actionQ) = 1 /\ Len(timerQ) = 1

\* the call with "2:26 tea" from alice at 11:06:40 has ended: the
\* confirmation is on the action channel and the event, for 2:26 of the next
\* day, on the timer channel
C25_Witness ==
    /\ Len(tasks) = 1
    /\ tasks[1].pc = "done"
    /\ tasks[1].params = << "2", ":", "2", "6", " ", "tea" >>
    /\ Len(actionQ) = 1
    /\ timerQ = << [target |-> [network |-> "irc1", channel |-> "#c"],
                    message |-> << "alice", ": ", "tea" >>,
                    time |-> 55160] >>

\* the feed with this id is a feed of exactly this network and channel
FeedOfChannel(db, source, id) ==
    \E i \in DOMAIN db.feeds :
        /\ db.feeds[i].id = id
        /\ db.feeds[i].network = source.network
        /\ db.feeds[i].channel = source.channel

\* C26 (removing a feed): after remove_feed(source, id) the feeds table
\* differs from the one before only if a feed with that id existed for
\* exactly the source's network and channel, and then by that one row; if
\* there was no such feed the call returned an error and the database is as
\* it was; and after a call that returned Ok no feed with that id is among
\* get_feeds_for_channel of the source.
C26_RemoveFeed ==
    (hist.last # Nil /\ hist.last.op = "remove") =>
        LET l == hist.last IN
        /\ rssDb.feeds # l.before.feeds =>
              /\ FeedOfChannel(l.before, l.source, l.id)
              /\ rssDb.feeds = SelectSeq(l.before.feeds, LAMBDA row : row.id # l.id)
        /\ ~FeedOfChannel(l.before, l.source, l.id) =>
              /\ ~l.ok
              /\ rssDb = l.before
        /\ l.ok =>
              /\ FeedOfChannel(l.before, l.source, l.id)
              /\ \A k \in DOMAIN GetFeedsForChannel(rssDb, l.source) :
                    GetFeedsForChannel(rssDb, l.source)[k].id # l.id
              /\ ~FeedOfChannel(rssDb, l.source, l.id)

\* a feed was removed from its channel while the feed of another channel
\* stays in the table
C26_Witness ==
    /\ hist.last # Nil
    /\ hist.last.op = "remove"
    /\ hist.last.ok
    /\ Len(hist.last.before.feeds) = 2
    /\ Len(rssDb.feeds) = 1
    /\ ~InTarget(rssDb.feeds[1], hist.last.source)

\* C27 (adding a feed): after add_feed_to_db has returned Ok for a feed and
\* a target channel, get_feeds_for_channel of the target has the feed with
\* the id of the new row and its url, title, network and channel, and every
\* entry of the feed with at least one link is a row of posts under the id
\* of the new row.
C27_AddFeedRecorded ==
    (hist.last # Nil /\ hist.last.op = "add" /\ hist.last.ok) =>
        LET l == hist.last
            fs == GetFeedsForChannel(rssDb, l.target)
        IN /\ \E k \in DOMAIN fs :
                 /\ fs[k].id = l.inserted
                 /\ fs[k].url = l.feed_data.url
                 /\ fs[k].title = l.feed_data.title
                 /\ fs[k].target = l.target
           /\ \A j \in DOMAIN l.feed_data.entries :
                 l.feed_data.entries[j].links # << >> =>
                    \E q \in DOMAIN rssDb.posts :
                        /\ rssDb.posts[q].id = l.feed_data.entries[j].id
                        /\ rssDb.posts[q].url = l.feed_data.entries[j].links[1]
                        /\ rssDb.posts[q].feed = l.inserted

\* the location of the most recent set_location for (nick, network) in a
\* log of calls, NoneStr if the log has none
RECURSIVE LastSet(_, _, _)
LastSet(log, nick, network) ==
    IF log = << >> THEN NoneStr
    ELSE LET c == log[Len(log)] IN
         IF c.nick = nick /\ c.network = network THEN c.location
         ELSE LastSet(SubSeq(log, 1, Len(log) - 1), nick, network)

\* C28 (weather-location store): for every nick and network,
\* get_stored_location gives None when no set_location was made for that
\* pair and otherwise the location of the most recent set_location for
\* exactly that pair, so that a set replaces the earlier value of its pair
\* and leaves the value of the same nick on another network as it was; and
\* a call of get_stored_location has returned just that.
C28_WeatherStore ==
    /\ \A n \in WeatherNicks, w \in WeatherNetworks :
          GetStoredLocation(weatherDb, n, w) = { LastSet(hist.sets, n, w) }
    /\ (hist.last # Nil /\ hist.last.op = "get") =>
          hist.last.location = LastSet(hist.sets, hist.last.nick, hist.last.network)
    /\ (hist.last # Nil /\ hist.last.op = "set") =>
          \A n \in WeatherNicks, w \in WeatherNetworks :
             (n # hist.last.nick \/ w # hist.last.network) =>
                GetStoredLocation(weatherDb, n, w)
                   = GetStoredLocation(hist.last.before, n, w)

\* a nick has a location on both networks, the one on testnetwork was set
\* twice, and get_stored_location has returned the second one
C28_Witness ==
    /\ hist.last # Nil
    /\ hist.last.op = "get"
    /\ hist.last.nick = "testnick"
    /\ hist.last.network = "testnetwork"
    /\ hist.last.location = "tampere"
    /\ Len(hist.sets) = 3
    /\ hist.sets[2] = [nick |-> "testnick", network |-> "testnetwork",
                       location |-> "helsinki"]
    /\ GetStoredLocation(weatherDb, "testnick", "anothernetwork") = { "helsinki" }

\* the sender of the command of a task is an admin of the task's network
SenderIsAdmin(t) ==
    /\ AdminMask(t.prefix).some
    /\ ConfiguredAdmin(config, t.source.network, AdminMask(t.prefix).mask)

\* command_rss has run, or is running, in the task
RanCommandRss(t) ==
    \/ t.pc \in { "fetch", "sendAction" }
    \/ t.out # Nil
    \/ t.ret = "true"

EventAction(event) == MessageAction(event.target, event.message)

\* C30 (timers): for every TimerEvent timer_manager has received, the task
\* started for it sends at most one action, and a task that has finished
\* has sent exactly one; the action is Message(event.message) to
\* event.target, appended to the action channel in the step of that task,
\* and not before the duration of the event has elapsed since it was
\* received; every other action that enters the channel comes from a
\* command task; the action of every received event is sent eventually; and
\* timer_manager can take the next event off its channel whatever timers
\* are pending.
C30_TimerFires ==
    /\ [](\A i \in DOMAIN timers :
            /\ timers[i].sent <= 1
            /\ timers[i].pc = "sleep" => timers[i].sent = 0
            /\ timers[i].pc = "done" => timers[i].sent = 1
            /\ timers[i].sent = 1 =>
                  timers[i].sentAt >= timers[i].started + timers[i].event.time)
    /\ []((Running /\ timerPc = "recv" /\ timerQ # << >>) => ENABLED TimerManagerRecv)
    /\ [][ /\ \A i \in DOMAIN timers :
                 /\ timers'[i].event = timers[i].event
                 /\ timers'[i].sent # timers[i].sent =>
                       /\ actionQ' = Append(actionQ, EventAction(timers[i].event))
                       /\ clock >= timers[i].started + timers[i].event.time
           /\ (Len(actionQ') > Len(actionQ) /\ tasks' = tasks) =>
                 Cardinality({ i \in DOMAIN timers :
                                  timers'[i].sent = timers[i].sent + 1 }) = 1
           /\ Len(timers') > Len(timers) =>
                 /\ timerQ # << >>
                 /\ timers' = Append(timers, timers'[Len(timers')])
                 /\ timers'[Len(timers')].event = Head(timerQ)
                 /\ timers'[Len(timers')].started = clock
                 /\ timers'[Len(timers')].sent = 0
         ]_vars
    /\ \A k \in 1..MaxTimerEvents :
          (Len(timers) >= k) ~> (Len(timers) >= k /\ timers[k].sent = 1)

\* a time argument HH:MM or HH.MM that is a time of day
ValidHHMM(tp) == MatchHHMM(tp) /\ ~BadTimeOfDay(tp)

\* the seconds from midnight to the time of day of a time argument
SecondsOfDay(tp) ==
    DigitsValue(SubSeq(tp, 1, Len(tp) - 3)) * 3600
       + DigitsValue(SubSeq(tp, Len(tp) - 1, Len(tp))) * 60

NegativeDurationAction(source) ==
    MessageAction(source, << "Time parser failed: negative duration." >>)

\* C32 (the next occurrence of a time of day): a call of command_timer
\* with a valid HH:MM argument at the time of day now makes the event with
\* the duration target - now when target is not before now and
\* target + 24 h - now otherwise; the duration is at least 0 and below 24
\* hours, the event is sent with it, and the task never has the action
\* "Time parser failed: negative duration." to send.
C32_NextOccurrence ==
    /\ [](\A i \in DOMAIN tasks :
            (tasks[i].command = "timer" /\ ValidHHMM(TimePart(tasks[i]))) =>
               /\ tasks[i].out # NegativeDurationAction(tasks[i].source)
               /\ \A k \in DOMAIN actionQ :
                     actionQ[k] # NegativeDurationAction(tasks[i].source)
               /\ tasks[i].event # Nil
               /\ tasks[i].event.time >= 0
               /\ tasks[i].event.time < SecondsPerDay
               /\ \A k \in DOMAIN timerQ : timerQ[k].time = tasks[i].event.time
               /\ tasks[i].pc = "done" => Len(timerQ) = 1)
    /\ [][ (tasks = << >> /\ tasks' # << >> /\ ValidHHMM(TimePart(tasks'[1]))) =>
              LET target == SecondsOfDay(TimePart(tasks'[1]))
                  now == clock % SecondsPerDay
              IN /\ tasks'[1].event # Nil
                 /\ tasks'[1].event.time =
                       (IF target >= now THEN target - now
                        ELSE target + SecondsPerDay - now)
         ]_vars

\* the call with "2:22 tea" at 2:22:00 has ended with an event of
\* duration 0 on the timer channel
C32_Witness ==
    /\ Len(tasks) = 1
    /\ tasks[1].pc = "done"
    /\ TimePart(tasks[1]) = << "2", ":", "2", "2" >>
    /\ Len(timerQ) = 1
    /\ timerQ[1].time = 0

\* the deadline of a row is in the past at an instant of the second now
DeadlinePassed(row, now, late) == row.time < now \/ (row.time = now /\ late)

\* C31 (timers over restarts): when timer_manager starts, every stored timer
\* whose deadline is in the past is deleted and gets no task, every other
\* stored timer gets exactly one task, for the time that is left to its
\* deadline; a row is deleted by a task only once the task has sent its
\* action; and no stored timer's action is sent twice, in whatever runs.
C31_TimersOverRestarts ==
    /\ [](\A a, b \in DOMAIN hist.fires : hist.fires[a] = hist.fires[b] => a = b)
    /\ [][ /\ hist'.restarts # hist.restarts =>
                 \A k \in DOMAIN timerDb.rows :
                    LET row == timerDb.rows[k]
                        tasksOf == { i \in DOMAIN timers' : timers'[i].db_id = row.id }
                    IN  IF DeadlinePassed(row, clock', hist'.late)
                        THEN /\ \A j \in DOMAIN timerDb'.rows : timerDb'.rows[j].id # row.id
                             /\ tasksOf = {}
                        ELSE /\ \E j \in DOMAIN timerDb'.rows : timerDb'.rows[j] = row
                             /\ Cardinality(tasksOf) = 1
                             /\ \A i \in tasksOf :
                                   /\ timers'[i].time = row.time - clock'
                                   /\ timers'[i].time >= 0
                                   /\ timers'[i].pc = "sleep"
                                   /\ timers'[i].action = MessageAction(row.target, row.message)
           /\ hist'.restarts = hist.restarts =>
                 \A k \in DOMAIN timerDb.rows :
                    (\A j \in DOMAIN timerDb'.rows : timerDb'.rows[j].id # timerDb.rows[k].id) =>
                       \E i \in DOMAIN timers' :
                          /\ timers'[i].db_id = timerDb.rows[k].id
                          /\ timers'[i].sent = 1
         ]_vars

\* C33 (feed de-duplication): whatever the cycles of refresh_feeds, no entry
\* of a feed is announced twice for that feed, an entry the feed had when it
\* was added is never announced, and an announcement goes to the channel of
\* its feed.
C33_FeedDeduplication ==
    /\ \A a, b \in DOMAIN hist.announced :
          (/\ hist.announced[a].feed = hist.announced[b].feed
           /\ hist.announced[a].entry = hist.announced[b].entry) => a = b
    /\ \A a \in DOMAIN hist.announced :
          /\ [feed |-> hist.announced[a].feed,
              entry |-> hist.announced[a].entry] \notin hist.added
          /\ \E i \in DOMAIN rssDb.feeds :
                /\ rssDb.feeds[i].id = hist.announced[a].feed
                /\ hist.announced[a].action.target =
                      IrcChannel(rssDb.feeds[i].network, rssDb.feeds[i].channel)

\* C34 (no deadlock between irc_loop and message_handler): in no reachable
\* state is irc_loop suspended in its send of an inbound event into the full
\* dispatcher channel while message_handler is suspended in its send of an
\* inline reply into the full action channel.
C34_NoDispatcherDeadlock ==
    ~ ( /\ regPc = "sendDown"
        /\ Len(dispQ) = ChanCap
        /\ mhPc = "sendMatt"
        /\ Len(actionQ) = ChanCap )

\* C35 (no deadlock between irc_loop and an actor): in no reachable state
\* is irc_loop suspended in its send of an action into the full channel of
\* an actor while that actor is suspended in its send of an inbound event
\* into the full merge channel.
C35_NoActorDeadlock ==
    \A n \in ConfigNets :
       ~ ( /\ regPc = "sendActor"
           /\ regPending.to = n
           /\ Len(actorQ[n]) = ChanCap
           /\ actorPc[n] = "sendMerge"
           /\ Len(mergeQ) = MergeCap )

\* C36 (admin queries are resolved): irc_loop takes a query from the query
\* channel and resolves the reply slot of that query, and of no other, in
\* one step that leaves it in its loop, not suspended; and under fair
\* scheduling a call of is_admin that has sent its query returns true or
\* false.
C36_QueryResolved ==
    /\ [][ (regPc' = "loop" /\ Len(queryQ') < Len(queryQ)) =>
              /\ regPc = "loop"
              /\ queryQ' = Tail(queryQ)
              /\ \A i \in DOMAIN tasks :
                    IF i = Head(queryQ).slot
                    THEN /\ tasks[i].reply = "pending"
                         /\ tasks'[i].reply \in { "true", "false" }
                    ELSE tasks'[i] = tasks[i] ]_vars
    /\ (Len(tasks) >= 1 /\ tasks[1].pc = "awaitReply") ~>
          (Len(tasks) >= 1 /\ tasks[1].ret \in { "true", "false" })

\* C38 (add_feed_to_db is all-or-nothing): after add_feed_to_db has returned
\* an error, the feeds table and the posts table are as they were before
\* the call.
C38_AddFeedAllOrNothing ==
    (hist.last # Nil /\ hist.last.op = "add" /\ ~hist.last.ok) =>
        /\ rssDb.feeds = hist.last.before.feeds
        /\ rssDb.posts = hist.last.before.posts

\* C37 (the feed poller never stops): every cycle of refresh_feeds, whatever
\* failed in it, ends with rss_manager back in its sleep before the next
\* cycle, and leaves irc_loop, message_handler and timer_manager as they
\* were.
C37_PollerNeverStops ==
    [][ hist'.cycles # hist.cycles =>
           /\ rssPc' = "sleep"
           /\ UNCHANGED << regPc, mhPc, timerPc >> ]_vars

====
